---- MODULE Spec2Model ----
(***************************************************************************)
(* Model of the flight-streaming pipeline: the FlightRecord schema         *)
(* (src/src/generators/models.py), the seeded FlightDataGenerator          *)
(* (src/src/generators/flight_generator.py), the NDJSON codec              *)
(* (src/src/streaming/json_stream.py), the Arrow loader into DuckDB        *)
(* (src/src/ingestion/arrow_loader.py), the Iceberg catalog                *)
(* (src/src/catalog/iceberg_catalog.py), the desktop launcher              *)
(* (src/launcher.py) and the KPI cell of the dashboard (src/dashboard.py). *)
(*                                                                         *)
(* Conventions.                                                            *)
(*   - A str that the code measures, upper-cases or writes as JSON is a    *)
(*     sequence of one-character strings: "JFK" is <<"J", "F", "K">>.      *)
(*   - A datetime is an integer number of minutes since the Unix epoch; a  *)
(*     timedelta(minutes = m) is the integer m.                            *)
(*   - An Optional value is a sequence: None is <<>>, a present value x is *)
(*     <<x>>.                                                              *)
(*   - random.Random is a deterministic stream of 16-bit words fixed by    *)
(*     its seed; every draw (choice, randint, one step of sample, random)  *)
(*     consumes one word.                                                  *)
(***************************************************************************)
EXTENDS Integers, Sequences, FiniteSets, TLC

VARIABLES
    \* --- the generator objects of one process (specification Spec) ---
    instances,   \* instance id -> the fields __init__ sets (seed, base_time)
    streams,     \* owner of a random stream -> the stream's state
    clock,       \* the last reading of datetime.now(timezone.utc), in minutes
    calls,       \* the generate()/stream() calls made, in order, with their results
    out,         \* instance id -> every record the instance has produced
    \* --- one call of _make_record (specification SpecRecord) ---
    draws,       \* the words the call reads from its random stream
    rbase,       \* self.base_time of the call
    made,        \* what the call returned or raised
    \* --- one construction of a FlightRecord (specification SpecSchema) ---
    input,       \* the keyword arguments of FlightRecord(...)
    result,      \* the record built, or the validation error raised
    \* --- the NDJSON codec and its files (specification SpecCodec) ---
    platform,    \* os.linesep of the platform the process runs on
    records,     \* the list of records the caller holds
    fs,          \* the file system: its directories and its files
    ret,         \* the last call of a codec function and what it gave the caller
    \* --- the stores the pipeline loads (specification SpecStore) ---
    db,          \* the DuckDB connection: its tables and its registered views
    catalog,     \* the Iceberg catalog: its namespaces and its tables
    appended,    \* Iceberg table -> the sum of the counts its appends returned
    \* --- the desktop launcher (specifications SpecLauncher, SpecPython) ---
    launcher,    \* main() of launcher.py: its position, its workspace, its server
    host         \* the machine: FLIGHT_OTP_PYTHON and what each interpreter does

generatorVars == <<instances, streams, clock, calls, out, draws, rbase, made, input, result>>

codecVars == <<platform, records, fs, ret>>

storeVars == <<db, catalog, appended>>

launcherVars == <<launcher, host>>

vars == <<generatorVars, codecVars, storeVars, launcherVars>>

None == <<>>

Some(x) == <<x>>

(***************************************************************************)
(* Reference data pools.                                                   *)
(***************************************************************************)
AIRLINES ==
    << <<"United Airlines", <<"U", "A">>>>,
       <<"Delta Air Lines", <<"D", "L">>>>,
       <<"American Airlines", <<"A", "A">>>>,
       <<"Southwest Airlines", <<"W", "N">>>>,
       <<"JetBlue Airways", <<"B", "6">>>>,
       <<"Alaska Airlines", <<"A", "S">>>>,
       <<"Spirit Airlines", <<"N", "K">>>>,
       <<"Frontier Airlines", <<"F", "9">>>>,
       <<"British Airways", <<"B", "A">>>>,
       <<"Lufthansa", <<"L", "H">>>>,
       <<"Air France", <<"A", "F">>>>,
       <<"KLM Royal Dutch", <<"K", "L">>>>,
       <<"Emirates", <<"E", "K">>>>,
       <<"Qatar Airways", <<"Q", "R">>>>,
       <<"Singapore Airlines", <<"S", "Q">>>> >>

AIRPORTS ==
    << <<"J", "F", "K">>, <<"L", "A", "X">>, <<"O", "R", "D">>, <<"A", "T", "L">>,
       <<"D", "F", "W">>, <<"D", "E", "N">>, <<"S", "F", "O">>, <<"S", "E", "A">>,
       <<"M", "I", "A">>, <<"B", "O", "S">>, <<"L", "H", "R">>, <<"C", "D", "G">>,
       <<"F", "R", "A">>, <<"A", "M", "S">>, <<"D", "X", "B">>, <<"S", "I", "N">>,
       <<"H", "N", "D">>, <<"I", "C", "N">>, <<"S", "Y", "D">>, <<"Y", "Y", "Z">> >>

AIRCRAFT_TYPES ==
    << "B738", "B739", "B77W", "B789", "A320", "A321", "A333",
       "A359", "A388", "E190", "CRJ9", "B737" >>

TERMINALS == << "T1", "T2", "T3", "T4", "T5" >>

\* list(FlightStatus): the members in definition order.
FlightStatus ==
    << "scheduled", "boarding", "departed", "in_air", "landed",
       "arrived", "delayed", "cancelled", "diverted" >>

\* list(FlightType)
FlightType == << "arrival", "departure" >>

\* list(STATUS_WEIGHTS.keys()): a dict keeps insertion order.
STATUS_KEYS ==
    << "scheduled", "boarding", "departed", "in_air", "landed",
       "arrived", "delayed", "cancelled", "diverted" >>

\* list(STATUS_WEIGHTS.values()), in hundredths (0.25 is 25).
STATUS_WEIGHTS == << 25, 10, 10, 15, 10, 15, 10, 3, 2 >>

\* string.ascii_uppercase[:6]
GATE_LETTERS == << "A", "B", "C", "D", "E", "F" >>

\* The delay pool of an arrived or landed flight.
ARRIVAL_DELAYS == << 0, 0, 0, 5, 10, 15, 30 >>

Range(s) == { s[i] : i \in DOMAIN s }

(***************************************************************************)
(* str.upper(), str(int).                                                  *)
(***************************************************************************)
UpperOf ==
    ("a" :> "A") @@ ("b" :> "B") @@ ("c" :> "C") @@ ("d" :> "D") @@ ("e" :> "E") @@ ("f" :> "F") @@
    ("g" :> "G") @@ ("h" :> "H") @@ ("i" :> "I") @@ ("j" :> "J") @@ ("k" :> "K") @@ ("l" :> "L") @@
    ("m" :> "M") @@ ("n" :> "N") @@ ("o" :> "O") @@ ("p" :> "P") @@ ("q" :> "Q") @@ ("r" :> "R") @@
    ("s" :> "S") @@ ("t" :> "T") @@ ("u" :> "U") @@ ("v" :> "V") @@ ("w" :> "W") @@ ("x" :> "X") @@
    ("y" :> "Y") @@ ("z" :> "Z")

\* One character upper-cased: a sequence, because the German sharp s becomes
\* two characters.
UpperChar(c) ==
    IF c \in DOMAIN UpperOf THEN <<UpperOf[c]>>
    ELSE IF c = "ß" THEN <<"S", "S">>
    ELSE <<c>>

RECURSIVE Upper(_)
Upper(s) ==
    IF s = <<>> THEN <<>> ELSE UpperChar(Head(s)) \o Upper(Tail(s))

DigitChars == << "0", "1", "2", "3", "4", "5", "6", "7", "8", "9" >>

RECURSIVE Digits(_)
\* str(n) of an integer n >= 0
Digits(n) ==
    IF n < 10 THEN <<DigitChars[n + 1]>>
    ELSE Digits(n \div 10) \o <<DigitChars[(n % 10) + 1]>>

(***************************************************************************)
(* The random stream.  A stream's state is a 16-bit word; every draw       *)
(* advances it by one step and reads the new word.                         *)
(***************************************************************************)
RawMod == 2 ^ 16

\* random.Random(seed): the state a seed fixes.
Random(seed) == seed % RawMod

\* One step of the stream.
Step(x) == (x * 25173 + 13849) % RawMod

RECURSIVE StepN(_, _)
\* The state after k draws.
StepN(x, k) == IF k = 0 THEN x ELSE StepN(Step(x), k - 1)

RECURSIVE Words(_, _)
\* The words the next k draws read.
Words(x, k) == IF k = 0 THEN <<>> ELSE <<Step(x)>> \o Words(Step(x), k - 1)

\* The words the next twelve draws read (a record needs at most twelve).
Draws(x) == Words(x, 12)

\* Random._randbelow(n) of the word raw: an integer in 0..n-1.
RandBelow(raw, n) == (raw * n) \div RawMod

\* Random.choice(seq)
Choice(raw, seq) == seq[RandBelow(raw, Len(seq)) + 1]

\* Random.randint(a, b)
Randint(raw, a, b) == a + RandBelow(raw, b - a + 1)

\* Random.sample(population, 2), as two independent choices: the mutant of
\* Sample2 (sampling with replacement).
Sample2_with_replacement(r1, r2, population) ==
    << Choice(r1, population), Choice(r2, population) >>

\* Random.sample(population, 2): the pool branch (n <= 21).  The element
\* selected is replaced in the pool by the pool's last unselected one.
Sample2(r1, r2, population) ==
    LET n     == Len(population)
        j1    == RandBelow(r1, n)
        pool1 == [population EXCEPT ![j1 + 1] = population[n]]
        j2    == RandBelow(r2, n - 1)
    IN  << population[j1 + 1], pool1[j2 + 1] >>

RECURSIVE SumTo(_, _)
SumTo(w, i) == IF i = 0 THEN 0 ELSE w[i] + SumTo(w, i - 1)

\* Random.choices(population, weights = w, k = 1)[0]:
\* population[bisect(cum_weights, random() * total, 0, n - 1)], where random()
\* is raw / RawMod.
Choices1(raw, population, w) ==
    LET n     == Len(population)
        total == SumTo(w, n)
        idx   == Cardinality({ i \in 1..(n - 1) : SumTo(w, i) * RawMod <= raw * total })
    IN  population[idx + 1]

(***************************************************************************)
(* The record schema: FlightRecord(kw).  Each field is checked against   *)
(* its constraints; when any field fails a ValidationError is raised and   *)
(* no instance exists, otherwise the field validators upper-case the three *)
(* codes and the instance holds the values.                                *)
(***************************************************************************)
\* airline_code: min_length = 2, max_length = 3
AirlineCodeOk(v) == Len(v) >= 2 /\ Len(v) <= 3

\* flight_number without its upper limit: the mutant of FlightNumberOk.
FlightNumberOk_no_le(n) == n >= 1

\* flight_number: ge = 1, le = 9999
FlightNumberOk(n) == n >= 1 /\ n <= 9999

\* origin_airport, destination_airport: min_length = 3, max_length = 4
AirportOk(v) == Len(v) >= 3 /\ Len(v) <= 4

\* delay_minutes: ge = 0
DelayOk(n) == n >= 0

\* The fields of kw that fail validation.
FieldErrors(kw) ==
    { f \in { "flight_type", "airline_code", "flight_number", "origin_airport",
              "destination_airport", "status", "delay_minutes" } :
        \/ f = "flight_type" /\ kw.flight_type \notin Range(FlightType)
        \/ f = "airline_code" /\ ~AirlineCodeOk(kw.airline_code)
        \/ f = "flight_number" /\ ~FlightNumberOk(kw.flight_number)
        \/ f = "origin_airport" /\ ~AirportOk(kw.origin_airport)
        \/ f = "destination_airport" /\ ~AirportOk(kw.destination_airport)
        \/ f = "status" /\ kw.status \notin Range(FlightStatus)
        \/ f = "delay_minutes" /\ ~DelayOk(kw.delay_minutes) }

\* @field_validator("origin_airport", "destination_airport")
uppercase_airport(v) == Upper(v)

\* @field_validator("airline_code")
uppercase_airline_code(v) == Upper(v)

\* FlightRecord(kw): the instance, or the error raised.
FlightRecord(kw) ==
    IF FieldErrors(kw) = {}
    THEN [ kind |-> "FlightRecord",
           rec  |-> [ kw EXCEPT !.airline_code = uppercase_airline_code(@),
                                !.origin_airport = uppercase_airport(@),
                                !.destination_airport = uppercase_airport(@) ] ]
    ELSE [ kind |-> "ValidationError", errors |-> FieldErrors(kw) ]

(***************************************************************************)
(* FlightDataGenerator._make_record                                        *)
(***************************************************************************)
\* flight_number one too high at the top: the mutant of FlightNumberDraw.
FlightNumberDraw_to_10000(raw) == Randint(raw, 100, 10000)

\* flight_number = self.rng.randint(100, 9999)
FlightNumberDraw(raw) == Randint(raw, 100, 9999)

\* Whether the delay rule reads the random stream: 1 draw or none.
DelayDraws(status) ==
    IF status = "delayed" THEN 1
    ELSE IF status = "cancelled" THEN 0
    ELSE IF status \in { "arrived", "landed" } THEN 1
    ELSE 0

\* A delayed flight drawn from 0..300: the mutant of DelayMinutes.
DelayMinutes_from_zero(status, raw) ==
    IF status = "delayed" THEN Randint(raw, 0, 300)
    ELSE IF status = "cancelled" THEN 0
    ELSE IF status \in { "arrived", "landed" } THEN Choice(raw, ARRIVAL_DELAYS)
    ELSE 0

\* delay_minutes, from the status and the word the delay draw (if any) reads.
DelayMinutes(status, raw) ==
    IF status = "delayed" THEN Randint(raw, 15, 300)
    ELSE IF status = "cancelled" THEN 0
    ELSE IF status \in { "arrived", "landed" } THEN Choice(raw, ARRIVAL_DELAYS)
    ELSE 0

\* An estimate whatever the delay: the mutant of Estimated.
Estimated_always(scheduled, delay_minutes) == Some(scheduled + delay_minutes)

\* estimated = scheduled + timedelta(minutes=delay_minutes) if delay_minutes else None
Estimated(scheduled, delay_minutes) ==
    IF delay_minutes # 0 THEN Some(scheduled + delay_minutes) ELSE None

\* An actual time for arrived and landed only: the mutant of Actual.
Actual_without_departed(status, estimated, scheduled) ==
    IF status \in { "arrived", "landed" }
    THEN (IF estimated # None THEN estimated ELSE Some(scheduled))
    ELSE None

\* actual = (estimated or scheduled) if status in (ARRIVED, LANDED, DEPARTED) else None
Actual(status, estimated, scheduled) ==
    IF status \in { "arrived", "landed", "departed" }
    THEN (IF estimated # None THEN estimated ELSE Some(scheduled))
    ELSE None

\* The offset counted from midnight of the base day: the mutant of Scheduled.
Scheduled_from_midnight(base_time, offset_minutes) ==
    (base_time \div 1440) * 1440 + offset_minutes

\* scheduled = self.base_time + timedelta(minutes=offset_minutes)
Scheduled(base_time, offset_minutes) == base_time + offset_minutes

\* One call of _make_record on a stream whose next words are d, with
\* self.base_time = base_time: what the FlightRecord(...) call gives, and the
\* number of words read.
MakeRecord(d, base_time) ==
    LET airline       == Choice(d[1], AIRLINES)
        airline_name  == airline[1]
        airline_code  == airline[2]
        flight_number == FlightNumberDraw(d[2])
        flight_id     == airline_code \o <<"-">> \o Digits(flight_number)
        pair          == Sample2(d[3], d[4], AIRPORTS)
        flight_type   == Choice(d[5], FlightType)
        offset        == Randint(d[6], -720, 720)
        scheduled     == Scheduled(base_time, offset)
        status        == Choices1(d[7], STATUS_KEYS, STATUS_WEIGHTS)
        k             == DelayDraws(status)
        delay_minutes == DelayMinutes(status, d[8])
        estimated     == Estimated(scheduled, delay_minutes)
        actual        == Actual(status, estimated, scheduled)
        gate_letter   == Choice(d[8 + k], GATE_LETTERS)
        gate_number   == Randint(d[9 + k], 1, 40)
    IN  [ ret  |-> FlightRecord(
                     [ flight_id           |-> flight_id,
                       flight_type         |-> flight_type,
                       airline             |-> airline_name,
                       airline_code        |-> airline_code,
                       flight_number       |-> flight_number,
                       origin_airport      |-> pair[1],
                       destination_airport |-> pair[2],
                       scheduled_time      |-> scheduled,
                       estimated_time      |-> estimated,
                       actual_time         |-> actual,
                       status              |-> status,
                       gate                |-> Some(<<gate_letter>> \o Digits(gate_number)),
                       terminal            |-> Some(Choice(d[10 + k], TERMINALS)),
                       aircraft_type       |-> Some(Choice(d[11 + k], AIRCRAFT_TYPES)),
                       delay_minutes       |-> delay_minutes ]),
          used |-> 11 + k ]

(***************************************************************************)
(* Text and bytes.  A str is a sequence of one-character strings, a bytes  *)
(* value a sequence of integers in 0..255.                                 *)
(***************************************************************************)
\* ord(c) of the characters the model's texts are made of.
CodePoint ==
    ("\t" :> 9) @@ ("\n" :> 10) @@ ("\r" :> 13) @@ (" " :> 32) @@ ("\"" :> 34) @@ ("+" :> 43) @@
    ("," :> 44) @@ ("-" :> 45) @@ ("." :> 46) @@ ("/" :> 47) @@ ("0" :> 48) @@ ("1" :> 49) @@
    ("2" :> 50) @@ ("3" :> 51) @@ ("4" :> 52) @@ ("5" :> 53) @@ ("6" :> 54) @@ ("7" :> 55) @@
    ("8" :> 56) @@ ("9" :> 57) @@ (":" :> 58) @@ ("A" :> 65) @@ ("B" :> 66) @@ ("C" :> 67) @@
    ("D" :> 68) @@ ("E" :> 69) @@ ("F" :> 70) @@ ("G" :> 71) @@ ("H" :> 72) @@ ("I" :> 73) @@
    ("J" :> 74) @@ ("K" :> 75) @@ ("L" :> 76) @@ ("M" :> 77) @@ ("N" :> 78) @@ ("O" :> 79) @@
    ("P" :> 80) @@ ("Q" :> 81) @@ ("R" :> 82) @@ ("S" :> 83) @@ ("T" :> 84) @@ ("U" :> 85) @@
    ("V" :> 86) @@ ("W" :> 87) @@ ("X" :> 88) @@ ("Y" :> 89) @@ ("Z" :> 90) @@ ("[" :> 91) @@
    ("\\" :> 92) @@ ("]" :> 93) @@ ("_" :> 95) @@ ("a" :> 97) @@ ("b" :> 98) @@ ("c" :> 99) @@
    ("d" :> 100) @@ ("e" :> 101) @@ ("f" :> 102) @@ ("g" :> 103) @@ ("h" :> 104) @@ ("i" :> 105) @@
    ("j" :> 106) @@ ("k" :> 107) @@ ("l" :> 108) @@ ("m" :> 109) @@ ("n" :> 110) @@ ("o" :> 111) @@
    ("p" :> 112) @@ ("q" :> 113) @@ ("r" :> 114) @@ ("s" :> 115) @@ ("t" :> 116) @@ ("u" :> 117) @@
    ("v" :> 118) @@ ("w" :> 119) @@ ("x" :> 120) @@ ("y" :> 121) @@ ("z" :> 122) @@ ("{" :> 123) @@
    ("}" :> 125) @@ ("ß" :> 223) @@ ("é" :> 233) @@ ("€" :> 8364)

\* chr(n)
CharOf == [ n \in { CodePoint[c] : c \in DOMAIN CodePoint } |->
              CHOOSE c \in DOMAIN CodePoint : CodePoint[c] = n ]

RECURSIVE Flatten(_, _, _)
\* "".join(parts[lo..hi]), by halves.
Flatten(parts, lo, hi) ==
    IF lo > hi THEN <<>>
    ELSE IF lo = hi THEN parts[lo]
    ELSE LET mid == (lo + hi) \div 2
         IN  Flatten(parts, lo, mid) \o Flatten(parts, mid + 1, hi)

\* "".join(parts)
Join(parts) == Flatten(parts, 1, Len(parts))

\* c.encode("utf-8") of one character
Utf8Char(c) ==
    LET n == CodePoint[c]
    IN  IF n < 128 THEN << n >>
        ELSE IF n < 2048 THEN << 192 + (n \div 64), 128 + (n % 64) >>
        ELSE << 224 + (n \div 4096), 128 + ((n \div 64) % 64), 128 + (n % 64) >>

\* s.encode("utf-8")
Utf8Encode(s) == Join([ i \in 1..Len(s) |-> Utf8Char(s[i]) ])

\* The character whose UTF-8 encoding starts at b[i], or nothing when b[i]
\* is a continuation byte.
Utf8At(b, i) ==
    IF b[i] < 128 THEN << CharOf[b[i]] >>
    ELSE IF b[i] < 192 THEN << >>
    ELSE IF b[i] < 224 THEN << CharOf[(b[i] - 192) * 64 + (b[i + 1] - 128)] >>
    ELSE << CharOf[(b[i] - 224) * 4096 + (b[i + 1] - 128) * 64 + (b[i + 2] - 128)] >>

\* b.decode("utf-8") of well-formed bytes
Utf8Decode(b) == Join([ i \in 1..Len(b) |-> Utf8At(b, i) ])

(***************************************************************************)
(* record.model_dump_json(): the JSON text of one record.                  *)
(***************************************************************************)
\* The field names of FlightRecord, in declaration order.
FIELD_NAMES ==
    << << "f", "l", "i", "g", "h", "t", "_", "i", "d" >>,
       << "f", "l", "i", "g", "h", "t", "_", "t", "y", "p", "e" >>,
       << "a", "i", "r", "l", "i", "n", "e" >>,
       << "a", "i", "r", "l", "i", "n", "e", "_", "c", "o", "d", "e" >>,
       << "f", "l", "i", "g", "h", "t", "_", "n", "u", "m", "b", "e", "r" >>,
       << "o", "r", "i", "g", "i", "n", "_", "a", "i", "r", "p", "o", "r", "t" >>,
       << "d", "e", "s", "t", "i", "n", "a", "t", "i", "o", "n", "_", "a", "i", "r", "p", "o", "r", "t" >>,
       << "s", "c", "h", "e", "d", "u", "l", "e", "d", "_", "t", "i", "m", "e" >>,
       << "e", "s", "t", "i", "m", "a", "t", "e", "d", "_", "t", "i", "m", "e" >>,
       << "a", "c", "t", "u", "a", "l", "_", "t", "i", "m", "e" >>,
       << "s", "t", "a", "t", "u", "s" >>,
       << "g", "a", "t", "e" >>,
       << "t", "e", "r", "m", "i", "n", "a", "l" >>,
       << "a", "i", "r", "c", "r", "a", "f", "t", "_", "t", "y", "p", "e" >>,
       << "d", "e", "l", "a", "y", "_", "m", "i", "n", "u", "t", "e", "s" >> >>

\* The value of each member of FlightType and FlightStatus.
EnumValue ==
    ("arrival" :> << "a", "r", "r", "i", "v", "a", "l" >>) @@
    ("departure" :> << "d", "e", "p", "a", "r", "t", "u", "r", "e" >>) @@
    ("scheduled" :> << "s", "c", "h", "e", "d", "u", "l", "e", "d" >>) @@
    ("boarding" :> << "b", "o", "a", "r", "d", "i", "n", "g" >>) @@
    ("departed" :> << "d", "e", "p", "a", "r", "t", "e", "d" >>) @@
    ("in_air" :> << "i", "n", "_", "a", "i", "r" >>) @@
    ("landed" :> << "l", "a", "n", "d", "e", "d" >>) @@
    ("arrived" :> << "a", "r", "r", "i", "v", "e", "d" >>) @@
    ("delayed" :> << "d", "e", "l", "a", "y", "e", "d" >>) @@
    ("cancelled" :> << "c", "a", "n", "c", "e", "l", "l", "e", "d" >>) @@
    ("diverted" :> << "d", "i", "v", "e", "r", "t", "e", "d" >>)

\* A character inside a JSON string with its escapes left out: the mutant of
\* JsonEscapeChar.
JsonEscapeChar_raw(c) == << c >>

\* A character inside a JSON string: the quote, the backslash and the
\* control characters are escaped, every other character is written as it is.
JsonEscapeChar(c) ==
    IF c = "\"" THEN << "\\", "\"" >>
    ELSE IF c = "\\" THEN << "\\", "\\" >>
    ELSE IF c = "\n" THEN << "\\", "n" >>
    ELSE IF c = "\r" THEN << "\\", "r" >>
    ELSE IF c = "\t" THEN << "\\", "t" >>
    ELSE << c >>

\* A str as a JSON string
JsonString(s) ==
    << "\"" >> \o Join([ i \in 1..Len(s) |-> JsonEscapeChar(s[i]) ]) \o << "\"" >>

\* n written with at least w digits
Padded(n, w) ==
    LET d == Digits(n)
    IN  [ i \in 1..(w - Len(d)) |-> "0" ] \o d

\* The date of a day number counted from 1970-01-01, as << year, month, day >>.
CivilFromDays(days) ==
    LET z   == days + 719468
        era == z \div 146097
        doe == z % 146097
        yoe == (doe - (doe \div 1460) + (doe \div 36524) - (doe \div 146096)) \div 365
        doy == doe - (365 * yoe + (yoe \div 4) - (yoe \div 100))
        mp  == (5 * doy + 2) \div 153
        d   == doy - ((153 * mp + 2) \div 5) + 1
        m   == IF mp < 10 THEN mp + 3 ELSE mp - 9
        y   == yoe + era * 400 + (IF m <= 2 THEN 1 ELSE 0)
    IN  << y, m, d >>

\* A UTC datetime in ISO-8601, as pydantic writes it: 2026-06-15T12:00:00Z
IsoFormat(t) ==
    LET ymd == CivilFromDays(t \div 1440)
        hm  == t % 1440
    IN  Padded(ymd[1], 4) \o << "-" >> \o Padded(ymd[2], 2) \o << "-" >> \o Padded(ymd[3], 2)
            \o << "T" >> \o Padded(hm \div 60, 2) \o << ":" >> \o Padded(hm % 60, 2)
            \o << ":", "0", "0", "Z" >>

\* The JSON text of an Optional value: null for None, else the text of its value.
JsonNull == << "n", "u", "l", "l" >>

\* The JSON text of field number k of record rec.
JsonField(rec, k) ==
    CASE k = 1  -> JsonString(rec.flight_id)
      [] k = 2  -> JsonString(EnumValue[rec.flight_type])
      [] k = 3  -> JsonString(rec.airline)
      [] k = 4  -> JsonString(rec.airline_code)
      [] k = 5  -> Digits(rec.flight_number)
      [] k = 6  -> JsonString(rec.origin_airport)
      [] k = 7  -> JsonString(rec.destination_airport)
      [] k = 8  -> JsonString(IsoFormat(rec.scheduled_time))
      [] k = 9  -> IF rec.estimated_time = None THEN JsonNull
                   ELSE JsonString(IsoFormat(rec.estimated_time[1]))
      [] k = 10 -> IF rec.actual_time = None THEN JsonNull
                   ELSE JsonString(IsoFormat(rec.actual_time[1]))
      [] k = 11 -> JsonString(EnumValue[rec.status])
      [] k = 12 -> IF rec.gate = None THEN JsonNull ELSE JsonString(rec.gate[1])
      [] k = 13 -> IF rec.terminal = None THEN JsonNull ELSE JsonString(rec.terminal[1])
      [] k = 14 -> IF rec.aircraft_type = None THEN JsonNull
                   ELSE JsonString(rec.aircraft_type[1])
      [] k = 15 -> Digits(rec.delay_minutes)

\* "name":value of field number k, after a comma unless it is the first.
JsonMember(rec, k) ==
    (IF k = 1 THEN <<>> ELSE << "," >>)
        \o JsonString(FIELD_NAMES[k]) \o << ":" >> \o JsonField(rec, k)

\* record.model_dump_json(): one object, the fields in declaration order,
\* no space between the tokens.
model_dump_json(rec) ==
    << "{" >> \o Join([ k \in 1..Len(FIELD_NAMES) |-> JsonMember(rec, k) ]) \o << "}" >>

\* def record_to_json_line(record)
record_to_json_line(record) == model_dump_json(record)

(***************************************************************************)
(* Text files: open(path, mode, encoding="utf-8") with the default         *)
(* newline=None, and iteration over the lines of a file.                   *)
(***************************************************************************)
\* The first index in lo..hi where P holds, hi + 1 when there is none.
FirstIndex(P(_), lo, hi) ==
    IF \E j \in lo..hi : P(j)
    THEN CHOOSE j \in lo..hi : P(j) /\ \A k \in lo..(j - 1) : ~P(k)
    ELSE hi + 1

\* The last index in lo..hi where P holds, lo - 1 when there is none.
LastIndex(P(_), lo, hi) ==
    IF \E j \in lo..hi : P(j)
    THEN CHOOSE j \in lo..hi : P(j) /\ \A k \in (j + 1)..hi : ~P(k)
    ELSE lo - 1

\* A set of integers in increasing order.
SortedSeq(S) ==
    [ k \in 1..Cardinality(S) |-> CHOOSE i \in S : Cardinality({ j \in S : j <= i }) = k ]

\* What fh.write(s) appends to the file, newlines untouched: the mutant of
\* TextWrite.
TextWrite_untranslated(s, linesep) == Utf8Encode(s)

\* What fh.write(s) appends to a file opened for writing as text: every "\n"
\* becomes os.linesep, and the text is encoded.
TextWrite(s, linesep) ==
    Utf8Encode(Join([ i \in 1..Len(s) |-> IF s[i] = "\n" THEN linesep ELSE << s[i] >> ]))

\* "\r\n" and "\r" read as "\n"
UniversalNewlines(t) ==
    Join([ i \in 1..Len(t) |->
             IF t[i] = "\r" THEN << "\n" >>
             ELSE IF t[i] = "\n" /\ i > 1 /\ t[i - 1] = "\r" THEN << >>
             ELSE << t[i] >> ])

\* The text of a file opened for reading as text: the bytes decoded, then
\* the newlines translated.
TextRead(b) == UniversalNewlines(Utf8Decode(b))

\* The pieces of t that end at the indexes ends.
LinesEndingAt(t, ends) ==
    [ k \in 1..Len(ends) |-> SubSeq(t, IF k = 1 THEN 1 ELSE ends[k - 1] + 1, ends[k]) ]

\* list(fh): the lines of the text, each with its "\n" unless it is the last
\* and the file does not end with one.
FileLines(t) ==
    LinesEndingAt(t, SortedSeq({ i \in 1..Len(t) : t[i] = "\n" }
                                  \cup (IF t # <<>> /\ t[Len(t)] # "\n" THEN { Len(t) } ELSE {})))

\* The characters str.strip() removes.
Whitespace == { " ", "\t", "\n", "\r" }

\* s.strip()
Strip(s) ==
    LET first == FirstIndex(LAMBDA j : s[j] \notin Whitespace, 1, Len(s))
        last  == LastIndex(LAMBDA j : s[j] \notin Whitespace, 1, Len(s))
    IN  SubSeq(s, first, last)

(***************************************************************************)
(* json.loads(s).  A parsed value carries its Python type:                 *)
(*   [t |-> "str", v |-> characters], [t |-> "int", v |-> integer],        *)
(*   [t |-> "float", v |-> the literal], [t |-> "bool", v |-> BOOLEAN],    *)
(*   [t |-> "none"], [t |-> "list", v |-> sequence of values],             *)
(*   [t |-> "dict", v |-> function from keys to values].                   *)
(* A parse step gives [ok |-> TRUE, val |-> value, next |-> index after    *)
(* it] or [ok |-> FALSE].                                                  *)
(***************************************************************************)
JsonWhitespace == { " ", "\t", "\n", "\r" }

Failed == [ ok |-> FALSE ]

Parsed(v, i) == [ ok |-> TRUE, val |-> v, next |-> i ]

SkipWs(t, i) == FirstIndex(LAMBDA j : t[j] \notin JsonWhitespace, i, Len(t))

\* t has the characters lit at index i
Matches(t, i, lit) ==
    /\ i + Len(lit) - 1 <= Len(t)
    /\ \A k \in 1..Len(lit) : t[i + k - 1] = lit[k]

HexDigits ==
    ("0" :> 0) @@ ("1" :> 1) @@ ("2" :> 2) @@ ("3" :> 3) @@ ("4" :> 4) @@ ("5" :> 5) @@
    ("6" :> 6) @@ ("7" :> 7) @@ ("8" :> 8) @@ ("9" :> 9) @@ ("a" :> 10) @@ ("b" :> 11) @@
    ("c" :> 12) @@ ("d" :> 13) @@ ("e" :> 14) @@ ("f" :> 15) @@ ("A" :> 10) @@ ("B" :> 11) @@
    ("C" :> 12) @@ ("D" :> 13) @@ ("E" :> 14) @@ ("F" :> 15)

\* The number of backslashes right before index k, not going below lo.
BackslashRun(t, lo, k) ==
    FirstIndex(LAMBDA r : k - 1 - r < lo \/ t[k - 1 - r] # "\\", 0, k - lo)

\* The character at index k is the one a backslash escapes.
Escaped(t, lo, k) ==
    IF k <= lo \/ t[k - 1] # "\\" THEN FALSE ELSE BackslashRun(t, lo, k) % 2 = 1

\* The characters an escape stands for.
Unescape ==
    ("\"" :> "\"") @@ ("\\" :> "\\") @@ ("/" :> "/") @@ ("n" :> "\n") @@ ("r" :> "\r") @@
    ("t" :> "\t")

\* index k holds one of the four hex digits of a \u escape
InUnicodeEscape(t, lo, k) ==
    \E d \in 1..4 : k - d >= lo /\ t[k - d] = "u" /\ Escaped(t, lo, k - d)

\* The escape at index k (the character after the backslash) is well formed.
EscapeOk(t, hi, k) ==
    \/ t[k] \in DOMAIN Unescape
    \/ /\ t[k] = "u"
       /\ k + 4 <= hi
       /\ \A d \in 1..4 : t[k + d] \in DOMAIN HexDigits
       /\ (((HexDigits[t[k + 1]] * 16 + HexDigits[t[k + 2]]) * 16 + HexDigits[t[k + 3]]) * 16
               + HexDigits[t[k + 4]]) \in DOMAIN CharOf

\* What index k of a string's content contributes to the decoded str.
StringPiece(t, lo, k) ==
    IF Escaped(t, lo, k)
    THEN IF t[k] = "u"
         THEN << CharOf[((HexDigits[t[k + 1]] * 16 + HexDigits[t[k + 2]]) * 16
                            + HexDigits[t[k + 3]]) * 16 + HexDigits[t[k + 4]]] >>
         ELSE << Unescape[t[k]] >>
    ELSE IF t[k] = "\\" \/ InUnicodeEscape(t, lo, k) THEN << >>
    ELSE << t[k] >>

\* The string whose content starts at index lo and whose closing quote is
\* at index close.
StringBetween(t, lo, close) ==
    IF close > Len(t) THEN Failed
    ELSE IF \E k \in lo..(close - 1) :
              \/ t[k] \in { "\n", "\r", "\t" }
              \/ Escaped(t, lo, k) /\ ~EscapeOk(t, close - 1, k)
    THEN Failed
    ELSE Parsed([ t |-> "str", v |-> Join([ k \in 1..(close - lo) |->
                                              StringPiece(t, lo, lo + k - 1) ]) ],
                close + 1)

\* A string whose opening quote is at index i: it ends at the first quote
\* that no backslash escapes, holds no raw control character and only
\* well-formed escapes.
ParseString(t, i) ==
    StringBetween(t, i + 1,
                  FirstIndex(LAMBDA j : t[j] = "\"" /\ ~Escaped(t, i + 1, j), i + 1, Len(t)))

RECURSIVE DigitsValue(_, _, _)
\* int(t[lo..hi]) of a run of decimal digits
DigitsValue(t, lo, hi) ==
    IF lo > hi THEN 0
    ELSE DigitsValue(t, lo, hi - 1) * 10 + HexDigits[t[hi]]

IsDigit(c) == c \in { "0", "1", "2", "3", "4", "5", "6", "7", "8", "9" }

\* The index after the run of digits that starts at index i.
DigitsEnd(t, i) == FirstIndex(LAMBDA j : ~IsDigit(t[j]), i, Len(t))

\* The number at index i whose integer part ends before index d1.
NumberFrom(t, i, d0, d1) ==
    LET f1 == IF d1 + 1 <= Len(t) /\ t[d1] = "." /\ IsDigit(t[d1 + 1])
              THEN DigitsEnd(t, d1 + 1) ELSE d1
        s1 == IF f1 + 1 <= Len(t) /\ t[f1] \in { "e", "E" } /\ t[f1 + 1] \in { "+", "-" }
              THEN f1 + 2 ELSE f1 + 1
        e1 == IF f1 <= Len(t) /\ t[f1] \in { "e", "E" } /\ s1 <= Len(t) /\ IsDigit(t[s1])
              THEN DigitsEnd(t, s1) ELSE f1
    IN  IF d1 = d0 THEN Failed
        ELSE IF e1 = d1
        THEN Parsed([ t |-> "int",
                      v |-> (IF d0 > i THEN -1 ELSE 1) * DigitsValue(t, d0, d1 - 1) ], d1)
        ELSE Parsed([ t |-> "float", v |-> SubSeq(t, i, e1 - 1) ], e1)

\* The number at index i whose digits start at index d0.
NumberAt(t, i, d0) ==
    NumberFrom(t, i, d0, IF d0 <= Len(t) /\ t[d0] = "0" THEN d0 + 1 ELSE DigitsEnd(t, d0))

\* A number whose first character (a minus sign or a digit) is at index i:
\* -?(0|[1-9][0-9]*)(\.[0-9]+)?([eE][-+]?[0-9]+)?
ParseNumber(t, i) == NumberAt(t, i, IF t[i] = "-" THEN i + 1 ELSE i)

RECURSIVE ParseValue(_, _)
RECURSIVE ParseMembers(_, _, _)
RECURSIVE ParseElements(_, _, _)

\* The dict of a sequence of << key, value >> pairs: the last value of a key
\* is the one kept.
DictOf(pairs) ==
    [ k \in { pairs[n][1] : n \in 1..Len(pairs) } |->
        pairs[LastIndex(LAMBDA n : pairs[n][1] = k, 1, Len(pairs))][2] ]

\* After the members pairs, at index after: "}" ends the object, "," leads
\* to the next member.
MembersEnd(t, after, pairs) ==
    IF after > Len(t) THEN Failed
    ELSE IF t[after] = "}" THEN Parsed([ t |-> "dict", v |-> DictOf(pairs) ], after + 1)
    ELSE IF t[after] = "," THEN ParseMembers(t, SkipWs(t, after + 1), pairs)
    ELSE Failed

\* After the key of a member and its value.
MemberValue(t, key, value, acc) ==
    IF ~value.ok THEN Failed
    ELSE MembersEnd(t, SkipWs(t, value.next), Append(acc, << key.val.v, value.val >>))

\* After the key of a member, at index colon.
MemberColon(t, key, colon, acc) ==
    IF colon > Len(t) \/ t[colon] # ":" THEN Failed
    ELSE MemberValue(t, key, ParseValue(t, SkipWs(t, colon + 1)), acc)

\* After the key of a member.
MemberKey(t, key, acc) ==
    IF ~key.ok THEN Failed ELSE MemberColon(t, key, SkipWs(t, key.next), acc)

\* The members of an object from index i (the opening quote of a key) on;
\* acc holds the pairs read so far.
ParseMembers(t, i, acc) ==
    IF i > Len(t) \/ t[i] # "\"" THEN Failed ELSE MemberKey(t, ParseString(t, i), acc)

\* After the elements elems, at index after: "]" ends the array, "," leads
\* to the next element.
ElementsEnd(t, after, elems) ==
    IF after > Len(t) THEN Failed
    ELSE IF t[after] = "]" THEN Parsed([ t |-> "list", v |-> elems ], after + 1)
    ELSE IF t[after] = "," THEN ParseElements(t, SkipWs(t, after + 1), elems)
    ELSE Failed

\* After an element of an array.
ElementValue(t, value, acc) ==
    IF ~value.ok THEN Failed
    ELSE ElementsEnd(t, SkipWs(t, value.next), Append(acc, value.val))

\* The elements of an array from index i (the first character of an element)
\* on; acc holds the elements read so far.
ParseElements(t, i, acc) == ElementValue(t, ParseValue(t, i), acc)

\* An object whose first token after "{" is at index j.
ObjectFrom(t, j) ==
    IF j <= Len(t) /\ t[j] = "}" THEN Parsed([ t |-> "dict", v |-> << >> ], j + 1)
    ELSE ParseMembers(t, j, << >>)

\* An array whose first token after "[" is at index j.
ArrayFrom(t, j) ==
    IF j <= Len(t) /\ t[j] = "]" THEN Parsed([ t |-> "list", v |-> << >> ], j + 1)
    ELSE ParseElements(t, j, << >>)

\* The JSON value that starts at index i.
ParseValue(t, i) ==
    IF i > Len(t) THEN Failed
    ELSE IF t[i] = "\"" THEN ParseString(t, i)
    ELSE IF t[i] = "{" THEN ObjectFrom(t, SkipWs(t, i + 1))
    ELSE IF t[i] = "[" THEN ArrayFrom(t, SkipWs(t, i + 1))
    ELSE IF Matches(t, i, << "n", "u", "l", "l" >>) THEN Parsed([ t |-> "none" ], i + 4)
    ELSE IF Matches(t, i, << "t", "r", "u", "e" >>)
    THEN Parsed([ t |-> "bool", v |-> TRUE ], i + 4)
    ELSE IF Matches(t, i, << "f", "a", "l", "s", "e" >>)
    THEN Parsed([ t |-> "bool", v |-> FALSE ], i + 5)
    ELSE IF Matches(t, i, << "N", "a", "N" >>)
    THEN Parsed([ t |-> "float", v |-> << "N", "a", "N" >> ], i + 3)
    ELSE IF Matches(t, i, << "I", "n", "f", "i", "n", "i", "t", "y" >>)
    THEN Parsed([ t |-> "float", v |-> SubSeq(t, i, i + 7) ], i + 8)
    ELSE IF Matches(t, i, << "-", "I", "n", "f", "i", "n", "i", "t", "y" >>)
    THEN Parsed([ t |-> "float", v |-> SubSeq(t, i, i + 8) ], i + 9)
    ELSE IF t[i] = "-" \/ IsDigit(t[i]) THEN ParseNumber(t, i)
    ELSE Failed

\* The value parsed from the start of s is the result when only whitespace
\* follows it.
WholeValue(s, value) ==
    IF value.ok /\ SkipWs(s, value.next) > Len(s)
    THEN [ kind |-> "value", val |-> value.val ]
    ELSE [ kind |-> "JSONDecodeError" ]

\* json.loads(s): the value, or json.JSONDecodeError when s is not one JSON
\* value with only whitespace around it.
json_loads(s) == WholeValue(s, ParseValue(s, SkipWs(s, 1)))

(***************************************************************************)
(* src/streaming/json_stream.py.  The file system is a set of directories  *)
(* and a map from paths to files; a path is the sequence of its parts and  *)
(* the working directory is << >>.                                         *)
(***************************************************************************)
\* sep.join(parts)
StrJoin(sep, parts) ==
    Join([ k \in 1..(2 * Len(parts) - 1) |-> IF k % 2 = 1 THEN parts[(k + 1) \div 2] ELSE sep ])

\* The lines joined with no newline after the last: the mutant of
\* records_to_ndjson.
records_to_ndjson_no_trailing(recs) ==
    StrJoin(<< "\n" >>, [ k \in 1..Len(recs) |-> record_to_json_line(recs[k]) ])

\* def records_to_ndjson(records)
records_to_ndjson(recs) ==
    LET lines == [ k \in 1..Len(recs) |-> record_to_json_line(recs[k]) ]
    IN  IF lines # << >> THEN StrJoin(<< "\n" >>, lines) \o << "\n" >> ELSE << >>

\* path.parent and its parents
Parents(path) == { SubSeq(path, 1, k) : k \in 0..(Len(path) - 1) }

NoFile == [ exists |-> FALSE ]

\* A file opened in append mode keeps its bytes: the mutant of OpenForWriting.
OpenForWriting_append(file) == IF file.exists THEN file.bytes ELSE << >>

\* open(path, "w"): the bytes of the file once opened, whatever it held.
OpenForWriting(file) == << >>

\* The bytes the loop of stream_to_file writes: for each record its line,
\* then "\n", each through the text layer of the file.
WrittenBytes(recs, linesep) ==
    Join([ k \in 1..Len(recs) |->
             TextWrite(record_to_json_line(recs[k]), linesep) \o TextWrite(<< "\n" >>, linesep) ])

\* stream_to_file with the file opened for appending.
stream_to_file_appending(fsys, recs, path, linesep) ==
    [ fs    |-> [ dirs  |-> fsys.dirs \cup Parents(path),
                  files |-> [ fsys.files EXCEPT ![path] =
                                [ exists |-> TRUE,
                                  bytes  |-> OpenForWriting_append(fsys.files[path])
                                                 \o WrittenBytes(recs, linesep),
                                  by     |-> "stream_to_file" ] ] ],
      count |-> Len(recs) ]

\* def stream_to_file(records, path): the file system it leaves and the count
\* it returns.
stream_to_file(fsys, recs, path, linesep) ==
    [ fs    |-> [ dirs  |-> fsys.dirs \cup Parents(path),
                  files |-> [ fsys.files EXCEPT ![path] =
                                [ exists |-> TRUE,
                                  bytes  |-> OpenForWriting(fsys.files[path])
                                                 \o WrittenBytes(recs, linesep),
                                  by     |-> "stream_to_file" ] ] ],
      count |-> Len(recs) ]

\* def stream_to_buffer(records): the BytesIO it returns, rewound.
stream_to_buffer(recs) ==
    [ data |-> Join([ k \in 1..Len(recs) |->
                        Utf8Encode(record_to_json_line(recs[k]) \o << "\n" >>) ]),
      pos  |-> 0 ]

\* The stripped lines of a file that are not empty.
NonEmptyLines(bytes) ==
    LET lines    == FileLines(TextRead(bytes))
        stripped == [ k \in 1..Len(lines) |-> Strip(lines[k]) ]
    IN  SelectSeq(stripped, LAMBDA line : line # << >>)

\* Every line that parses is kept and the others are skipped: the mutant of
\* ReadResult.
ReadResult_skipping(parsed) ==
    [ kind  |-> "return",
      value |-> LET good == SelectSeq(parsed, LAMBDA r : r.kind = "value")
                IN  [ k \in 1..Len(good) |-> good[k].val ] ]

\* What the loop of read_ndjson_file ends with, given json.loads of each
\* non-empty line: the first error leaves the function and the list built so
\* far is lost with it.
ReadResult(parsed) ==
    IF \E k \in 1..Len(parsed) : parsed[k].kind = "JSONDecodeError"
    THEN [ kind |-> "JSONDecodeError",
           line |-> FirstIndex(LAMBDA k : parsed[k].kind = "JSONDecodeError", 1, Len(parsed)) ]
    ELSE [ kind |-> "return", value |-> [ k \in 1..Len(parsed) |-> parsed[k].val ] ]

\* def read_ndjson_file(path)
read_ndjson_file(fsys, path) ==
    IF ~fsys.files[path].exists THEN [ kind |-> "FileNotFoundError" ]
    ELSE LET lines == NonEmptyLines(fsys.files[path].bytes)
         IN  ReadResult([ k \in 1..Len(lines) |-> json_loads(lines[k]) ])

\* def count_lines(path)
count_lines(fsys, path) ==
    IF ~fsys.files[path].exists THEN [ kind |-> "FileNotFoundError" ]
    ELSE [ kind |-> "return", value |-> Len(NonEmptyLines(fsys.files[path].bytes)) ]

(***************************************************************************)
(* Bounds and input sets.                                                  *)
(***************************************************************************)
\* The generator objects of the process.
Gens == { "g1", "g2" }

\* The owner key of Faker's class-level shared random.
FakerShared == "Faker"

\* The seeds handed to the constructor: two distinct values, so that equal and
\* different seeds both occur.
Seeds == { 0, 1 }

\* generate(n) and stream(n) are called with n in 0..MaxN.
MaxN == 2

\* The generate()/stream() calls of the process, in the order they are made.
CallIds == { 1, 2 }


\* The base_time arguments callers pass: None, or 2026-06-15T12:00Z.
BaseTimeArgs == { None, Some(29692080) }

\* The longest str handed to FlightRecord.
MaxStrLen == 5

\* 2026-06-15T12:00Z and 2026-01-01T00:00Z, the base times the tests use.
BaseTimes == { 29692080, 29453760 }

\* When the process starts: 2026-11-06T00:00Z.
Now0 == 29692080 + 144 * 1440

\* What datetime.now() may read: the start, or a minute later.
Nows == { Now0, Now0 + 1 }

\* Before any call on them the variables of a specification hold these.
IdleInstances == [ g \in Gens |-> [ constructed |-> FALSE ] ]

IdleStreams == [ k \in Gens \cup { FakerShared } |-> 0 ]

IdleOut == [ g \in Gens |-> <<>> ]

GeneratorIdle ==
    /\ instances = IdleInstances
    /\ streams = IdleStreams
    /\ clock = Now0
    /\ calls = <<>>
    /\ out = IdleOut

Pending == [ kind |-> "pending" ]

RecordIdle ==
    /\ draws = <<>>
    /\ rbase = 0
    /\ made = [ ret |-> Pending, used |-> 0 ]

SchemaIdle ==
    /\ input = <<>>
    /\ result = Pending

\* A path in the working directory, and one whose directories do not exist.
Paths == { << "flights.ndjson" >>, << "out", "run1", "flights.ndjson" >> }

EmptyFs == [ dirs |-> { << >> }, files |-> [ p \in Paths |-> NoFile ] ]

NoCall == [ op |-> "none" ]

CodecIdle ==
    /\ platform = << "\n" >>
    /\ records = << >>
    /\ fs = EmptyFs
    /\ ret = NoCall

NoTable == [ exists |-> FALSE ]

\* f"{namespace}.{table_name}"
FullName(namespace, table_name) == << namespace, table_name >>

\* The tables a caller names on the DuckDB connection.
TableNames == { "flights", "staging" }

\* duckdb.connect(":memory:")
EmptyDb == [ tables |-> [ n \in TableNames |-> NoTable ], views |-> { } ]

\* The namespace and the tables a caller names in the Iceberg catalog.
Namespaces == { "flights_db" }

IcebergNames == { "flights", "archive" }

FullNames == { FullName(ns, n) : ns \in Namespaces, n \in IcebergNames }

\* create_catalog(warehouse_path) on a new warehouse
EmptyCatalog ==
    [ namespaces |-> { }, tables |-> [ f \in FullNames |-> NoTable ], created |-> 0,
      down |-> { } ]

StoreIdle ==
    /\ db = EmptyDb
    /\ catalog = EmptyCatalog
    /\ appended = [ f \in FullNames |-> 0 ]

\* The interpreters _find_system_python may try: the three fixed commands and
\* the one FLIGHT_OTP_PYTHON names.
Commands == { "py -3", "python", "python3", "build_python" }

\* main() before its first line: no workspace, no server process, no browser.
NotStarted ==
    [ pc |-> "idle", python |-> "none", workspace |-> "none", proc |-> "none",
      server |-> "none", execs |-> FALSE, signal |-> "none", listening |-> FALSE,
      polls |-> 0, browser |-> 0, exit |-> "none" ]

\* A machine with no FLIGHT_OTP_PYTHON on which only "python" has marimo.
PlainHost ==
    [ env |-> FALSE,
      run |-> [ c \in Commands |-> IF c = "python" THEN "ok" ELSE "missing" ] ]

LauncherIdle ==
    /\ launcher = NotStarted
    /\ host = PlainHost

(***************************************************************************)
(* SpecRecord: one call of _make_record, over every outcome of its draws.  *)
(* The words are drawn from sets that reach both ends of every range, each *)
(* of the nine statuses (with the exact weight boundaries) and each of the *)
(* seven arrival delays.                                                   *)
(***************************************************************************)
Ends == { 0, RawMod - 1 }

StatusWords ==
    { (c * RawMod) \div 100 : c \in { 0, 24, 25, 35, 45, 60, 70, 85, 95, 98, 99 } }
        \cup { RawMod - 1 }

DelayWords == { (c * RawMod) \div 7 : c \in 0..6 } \cup { RawMod - 1 }

DrawVectors ==
    { << a, f, s1, s2, t, o, st, dl, g1, g2, g3, g4 >> :
        a \in Ends, f \in Ends, s1 \in Ends, s2 \in Ends, t \in Ends,
        o \in Ends \cup { RawMod \div 2 }, st \in StatusWords, dl \in DelayWords,
        g1 \in Ends, g2 \in Ends, g3 \in { 0 }, g4 \in { RawMod - 1 } }

RecordInit ==
    /\ CodecIdle
    /\ StoreIdle
    /\ LauncherIdle
    /\ draws \in DrawVectors
    /\ rbase \in BaseTimes
    /\ made = [ ret |-> Pending, used |-> 0 ]
    /\ GeneratorIdle
    /\ SchemaIdle

\* self._make_record()
MakeRecordCall ==
    /\ made.ret = Pending
    /\ made' = MakeRecord(draws, rbase)
    /\ UNCHANGED << instances, streams, clock, calls, out, draws, rbase, input, result >>
    /\ UNCHANGED << codecVars, storeVars, launcherVars >>

SpecRecord == RecordInit /\ [][MakeRecordCall]_vars

(***************************************************************************)
(* SpecBatch: the records one generator yields, one _make_record call      *)
(* after the other, over the words its stream may give: of each call the   *)
(* model draws the words that choose the airline, the flight number and    *)
(* the status.                                                             *)
(***************************************************************************)
\* The most records the generator is asked for.
MaxBatch == 2

\* 0.00, 0.45 and 0.60 of the status scale: scheduled, in_air and landed
StatusPicks == { (c * RawMod) \div 100 : c \in { 0, 45, 60 } }

BatchDraws ==
    { << a, f, 0, 0, 0, RawMod \div 2, st, 0, 0, 0, 0, 0 >> :
        a \in Ends, f \in Ends, st \in StatusPicks }

BatchInit ==
    /\ CodecIdle
    /\ StoreIdle
    /\ LauncherIdle
    /\ GeneratorIdle
    /\ SchemaIdle
    /\ draws = << >>
    /\ rbase \in BaseTimes
    /\ made = [ ret |-> Pending, used |-> 0 ]

\* next() on self.stream(n): one more record of generator g1, made from the
\* words d.
NextRecord(d) ==
    /\ Len(out["g1"]) < MaxBatch
    /\ out' = [ out EXCEPT !["g1"] = Append(@, MakeRecord(d, rbase).ret.rec) ]
    /\ UNCHANGED << instances, streams, clock, calls, draws, rbase, made, input, result >>
    /\ UNCHANGED << codecVars, storeVars, launcherVars >>

BatchNext == \E d \in BatchDraws : NextRecord(d)

SpecBatch == BatchInit /\ [][BatchNext]_vars

(***************************************************************************)
(* SpecSchema: one construction of a FlightRecord by any caller.           *)
(***************************************************************************)
\* The str of length n whose first character is c1 and whose others are c2.
Str(n, c1, c2) == [ i \in 1..n |-> IF i = 1 THEN c1 ELSE c2 ]

AirportInputs ==
    { Str(n, c[1], c[2]) :
        n \in 2..MaxStrLen,
        c \in { <<"a", "a">>, <<"A", "A">>, <<"B", "B">>, <<"a", "A">> } }

AirlineCodeInputs ==
    { Str(n, c, c) : n \in 1..(MaxStrLen - 1), c \in { "a", "A", "B", "ß" } }

FlightNumberInputs == { 0, 1, 9999, 10000 }

DelayInputs == { -1, 0, 30 }

Inputs ==
    { [ flight_id           |-> <<"X", "-", "1">>,
        flight_type         |-> "arrival",
        airline             |-> "Any Airline",
        airline_code        |-> ac,
        flight_number       |-> fn,
        origin_airport      |-> o,
        destination_airport |-> d,
        scheduled_time      |-> 29692080,
        estimated_time      |-> None,
        actual_time         |-> None,
        status              |-> "scheduled",
        gate                |-> None,
        terminal            |-> None,
        aircraft_type       |-> None,
        delay_minutes       |-> dm ] :
        ac \in AirlineCodeInputs, fn \in FlightNumberInputs,
        o \in AirportInputs, d \in AirportInputs, dm \in DelayInputs }

SchemaInit ==
    /\ CodecIdle
    /\ StoreIdle
    /\ LauncherIdle
    /\ input \in Inputs
    /\ result = Pending
    /\ GeneratorIdle
    /\ RecordIdle

\* FlightRecord(...) called with the keyword arguments input.
Construct ==
    /\ result = Pending
    /\ result' = FlightRecord(input)
    /\ UNCHANGED << instances, streams, clock, calls, out, draws, rbase, made, input >>
    /\ UNCHANGED << codecVars, storeVars, launcherVars >>

SpecSchema == SchemaInit /\ [][Construct]_vars

(***************************************************************************)
(* SpecCodec: the NDJSON codec of src/streaming/json_stream.py.  A caller  *)
(* holds a list of records and calls the functions of the module on it,    *)
(* one call after the other and in any order, on a platform whose          *)
(* os.linesep is "\n" or "\r\n"; between two calls another writer may put  *)
(* a file of its own at a path.                                            *)
(***************************************************************************)
\* A record as the generator makes them.
RecordPlain ==
    [ flight_id           |-> << "U", "A", "-", "1", "0", "7" >>,
      flight_type         |-> "arrival",
      airline             |-> << "U", "n", "i", "t", "e", "d" >>,
      airline_code        |-> << "U", "A" >>,
      flight_number       |-> 107,
      origin_airport      |-> << "J", "F", "K" >>,
      destination_airport |-> << "L", "A", "X" >>,
      scheduled_time      |-> 29692080,
      estimated_time      |-> None,
      actual_time         |-> None,
      status              |-> "scheduled",
      gate                |-> Some(<< "B", "7" >>),
      terminal            |-> Some(<< "T", "1" >>),
      aircraft_type       |-> Some(<< "B", "7", "3", "8" >>),
      delay_minutes       |-> 0 ]

\* A valid record whose airline holds a quote, a backslash, a newline, a
\* carriage return and characters outside ASCII.
RecordSpecial ==
    [ flight_id           |-> << "L", "H", "-", "4", "2" >>,
      flight_type         |-> "departure",
      airline             |-> << "L", "\"", "\\", "\n", "\r", "é", "€", " " >>,
      airline_code        |-> << "L", "H" >>,
      flight_number       |-> 42,
      origin_airport      |-> << "F", "R", "A" >>,
      destination_airport |-> << "E", "D", "D", "M" >>,
      scheduled_time      |-> 29453760,
      estimated_time      |-> Some(29453760 + 45),
      actual_time         |-> None,
      status              |-> "delayed",
      gate                |-> None,
      terminal            |-> None,
      aircraft_type       |-> None,
      delay_minutes       |-> 45 ]

CodecRecords == { RecordPlain, RecordSpecial }

\* The longest list of records a caller passes.
MaxRecords == 2

RecordLists == UNION { [ 1..n -> CodecRecords ] : n \in 0..MaxRecords }

\* os.linesep on POSIX and on Windows
Platforms == { << "\n" >>, << "\r", "\n" >> }

\* The path another writer uses.
ForeignPaths == { << "flights.ndjson" >> }

\* Files of another writer, as text, with what is known of each: whether a
\* non-empty line of it is malformed JSON, and its number of non-empty lines.
ForeignFiles ==
    { [ text      |-> record_to_json_line(RecordPlain) \o << "\n" >>
                         \o << "{", "\"", "f", "l", "i", "g", "h", "t", "_", "i", "d", "\"", ":" >>
                         \o << "\n" >>,
        malformed |-> TRUE,
        nonempty  |-> 2 ],
      [ text      |-> << "\n", " ", "\t", "\n" >> \o record_to_json_line(RecordPlain)
                         \o << "\n", "\n" >>,
        malformed |-> FALSE,
        nonempty  |-> 1 ],
      [ text      |-> << "n", "u", "l", "l", "x", "\n" >>
                         \o record_to_json_line(RecordSpecial),
        malformed |-> TRUE,
        nonempty  |-> 2 ] }

CodecInit ==
    /\ platform \in Platforms
    /\ records \in RecordLists
    /\ fs = EmptyFs
    /\ ret = NoCall
    /\ GeneratorIdle
    /\ RecordIdle
    /\ SchemaIdle
    /\ StoreIdle
    /\ LauncherIdle

\* text = records_to_ndjson(records)
Call_records_to_ndjson ==
    /\ ret = NoCall
    /\ ret' = [ op |-> "records_to_ndjson", value |-> records_to_ndjson(records) ]
    /\ UNCHANGED << platform, records, fs >>
    /\ UNCHANGED << generatorVars, storeVars, launcherVars >>

\* count = stream_to_file(records, path)
Call_stream_to_file(path) ==
    /\ ret = NoCall
    /\ \E r \in { stream_to_file(fs, records, path, platform) } :
          /\ fs' = r.fs
          /\ ret' = [ op |-> "stream_to_file", path |-> path, value |-> r.count ]
    /\ UNCHANGED << platform, records >>
    /\ UNCHANGED << generatorVars, storeVars, launcherVars >>

\* buf = stream_to_buffer(records): the caller holds the buffer returned.
Call_stream_to_buffer ==
    /\ ret = NoCall
    /\ ret' = [ op |-> "stream_to_buffer", buf |-> stream_to_buffer(records) ]
    /\ UNCHANGED << platform, records, fs >>
    /\ UNCHANGED << generatorVars, storeVars, launcherVars >>

\* data = buf.read() on the buffer the caller holds: the bytes from the
\* position to the end; the position moves to the end.
BufRead ==
    /\ ret.op \in { "stream_to_buffer", "buf.read" }
    /\ ret' = [ op    |-> "buf.read",
                first |-> ret.op = "stream_to_buffer",
                value |-> SubSeq(ret.buf.data, ret.buf.pos + 1, Len(ret.buf.data)),
                buf   |-> [ ret.buf EXCEPT !.pos = Len(ret.buf.data) ] ]
    /\ UNCHANGED << platform, records, fs >>
    /\ UNCHANGED << generatorVars, storeVars, launcherVars >>

\* loaded = read_ndjson_file(path)
Call_read_ndjson_file(path) ==
    /\ ret = NoCall
    /\ ret' = [ op |-> "read_ndjson_file", path |-> path, got |-> read_ndjson_file(fs, path) ]
    /\ UNCHANGED << platform, records, fs >>
    /\ UNCHANGED << generatorVars, storeVars, launcherVars >>

\* n = count_lines(path)
Call_count_lines(path) ==
    /\ ret = NoCall
    /\ ret' = [ op |-> "count_lines", path |-> path, got |-> count_lines(fs, path) ]
    /\ UNCHANGED << platform, records, fs >>
    /\ UNCHANGED << generatorVars, storeVars, launcherVars >>

\* Another writer replaces the file at path by one of its own.
ForeignWrite(path, f) ==
    /\ ret = NoCall
    /\ Parents(path) \subseteq fs.dirs
    /\ fs' = [ fs EXCEPT !.files[path] =
                 [ exists |-> TRUE, bytes |-> Utf8Encode(f.text), by |-> "foreign",
                   malformed |-> f.malformed, nonempty |-> f.nonempty ] ]
    /\ UNCHANGED << platform, records, ret >>
    /\ UNCHANGED << generatorVars, storeVars, launcherVars >>

\* The caller is done with the result of its last call.
Continue ==
    /\ ret # NoCall
    /\ ret' = NoCall
    /\ UNCHANGED << platform, records, fs >>
    /\ UNCHANGED << generatorVars, storeVars, launcherVars >>

CodecNext ==
    \/ Call_records_to_ndjson
    \/ \E path \in Paths : Call_stream_to_file(path)
    \/ Call_stream_to_buffer
    \/ BufRead
    \/ \E path \in Paths : Call_read_ndjson_file(path)
    \/ \E path \in Paths : Call_count_lines(path)
    \/ \E path \in ForeignPaths, f \in ForeignFiles : ForeignWrite(path, f)
    \/ Continue

SpecCodec == CodecInit /\ [][CodecNext]_vars

(***************************************************************************)
(* SpecRewrite: a caller that writes one list of records after the other,  *)
(* to the same paths, and reads the files in between.                      *)
(***************************************************************************)
RewriteInit ==
    /\ platform \in Platforms
    /\ records = << >>
    /\ fs = EmptyFs
    /\ ret = NoCall
    /\ GeneratorIdle
    /\ RecordIdle
    /\ SchemaIdle
    /\ StoreIdle
    /\ LauncherIdle

\* count = stream_to_file(recs, path) with the next list the caller holds;
\* before is the file found at path.
Rewrite(recs, path) ==
    /\ ret = NoCall
    /\ records' = recs
    /\ \E r \in { stream_to_file(fs, recs, path, platform) } :
          /\ fs' = r.fs
          /\ ret' = [ op |-> "stream_to_file", path |-> path, value |-> r.count,
                      before |-> fs.files[path] ]
    /\ UNCHANGED platform
    /\ UNCHANGED << generatorVars, storeVars, launcherVars >>

\* The one path the caller writes again and again.
RewritePaths == { << "out", "run1", "flights.ndjson" >> }

RewriteNext ==
    \/ \E recs \in RecordLists, path \in RewritePaths : Rewrite(recs, path)
    \/ \E path \in RewritePaths : Call_read_ndjson_file(path)
    \/ \E path \in RewritePaths : Call_count_lines(path)
    \/ Continue

SpecRewrite == RewriteInit /\ [][RewriteNext]_vars

(***************************************************************************)
(* The inputs of the loader, of the catalog and of the pipeline.           *)
(***************************************************************************)
\* The most rows of an Arrow table a caller passes.
MaxRows == 2

\* The most snapshots the catalog holds.
MaxSnapshots == 2

\* The most rows a DuckDB table holds.
MaxTableRows == MaxRows + 1

\* Row k of the tables a caller builds: {"flight_id": "F<k>"}
CallerRow(k) ==
    [ t |-> "dict",
      v |-> [ key \in { << "f", "l", "i", "g", "h", "t", "_", "i", "d" >> } |->
                [ t |-> "str", v |-> << "F" >> \o IF k = 1 THEN << "1" >> ELSE << "2" >> ] ] ]

\* The Arrow tables a caller passes: of no row, of one row, of more.
ArrowTables == { [ k \in 1..n |-> CallerRow(k) ] : n \in 0..MaxRows }

Modes == { "create_or_replace", "append", "upsert" }

\* The record lists the pipeline generates: generate(0), generate(1), generate(2).
PipelineBatches == { << >>, << RecordPlain >>, << RecordPlain, RecordSpecial >> }

\* env["ndjson_path"]
PipelinePath == << "flights.ndjson" >>

\* Files of another writer: two JSON objects, and a line cut short.
StoreFiles ==
    { [ text      |-> << "{", "\"", "f", "l", "i", "g", "h", "t", "_", "i", "d", "\"", ":",
                         "\"", "F", "1", "\"", "}", "\n",
                         "{", "\"", "f", "l", "i", "g", "h", "t", "_", "i", "d", "\"", ":",
                         "\"", "F", "2", "\"", "}", "\n" >>,
        malformed |-> FALSE,
        nonempty  |-> 2 ],
      [ text      |-> << "{", "\"", "f", "l", "i", "g", "h", "t", "_", "i", "d", "\"", ":",
                         "\n" >>,
        malformed |-> TRUE,
        nonempty  |-> 1 ] }

(***************************************************************************)
(* src/ingestion/arrow_loader.py.  A pa.Table is the sequence of its rows. *)
(* A DuckDB connection is its tables, each the sequence of its rows, and   *)
(* the set of the views registered on it.  Every function gives, with its  *)
(* outcome, the calls it made on the libraries, in order.                  *)
(***************************************************************************)
\* The table of the rows json parsing gave, one for each line: a line that
\* is no JSON object fails the read.
TableOfParsed(parsed) ==
    IF \E k \in 1..Len(parsed) :
          \/ parsed[k].kind # "value"
          \/ parsed[k].val.t # "dict"
    THEN [ kind |-> "ArrowInvalid" ]
    ELSE [ kind |-> "return", table |-> [ k \in 1..Len(parsed) |-> parsed[k].val ] ]

\* The table read from the lines of a text that are not blank: a text with
\* no such line fails the read.
TableOfLines(lines) ==
    IF lines = << >> THEN [ kind |-> "ArrowInvalid" ]
    ELSE TableOfParsed([ k \in 1..Len(lines) |-> json_loads(lines[k]) ])

\* paj.read_json(source): one row for each JSON object of the text.
read_json(bytes) == TableOfLines(NonEmptyLines(bytes))

\* path.exists() answers that the path exists whatever is there: the mutant
\* of PathExists.
PathExists_always(fsys, path) == TRUE

\* path.exists()
PathExists(fsys, path) == fsys.files[path].exists

\* paj.read_json(str(path)): the file is opened, then read and parsed.
read_json_file(fsys, path) ==
    IF ~fsys.files[path].exists THEN [ kind |-> "FileNotFoundError" ]
    ELSE read_json(fsys.files[path].bytes)

\* What ndjson_file_to_arrow gives once paj.read_json has returned or raised.
ArrowOutcome(got) ==
    IF got.kind = "return"
    THEN [ kind |-> "return", table |-> got.table,
           lib |-> << "Path.exists", "paj.read_json" >> ]
    ELSE [ kind |-> got.kind, lib |-> << "Path.exists", "paj.read_json" >> ]

\* def ndjson_file_to_arrow(path)
ndjson_file_to_arrow(fsys, path) ==
    IF ~PathExists(fsys, path)
    THEN [ kind |-> "FileNotFoundError", lib |-> << "Path.exists" >> ]
    ELSE ArrowOutcome(read_json_file(fsys, path))

\* f"__arrow_{table_name}"
ViewName(table_name) == << "__arrow_", table_name >>

\* The table is made of the view's rows after the rows it already holds: the
\* mutant of CreateTableAs.
CreateTableAs_keeping(old, rows) ==
    [ exists |-> TRUE, rows |-> (IF old.exists THEN old.rows ELSE << >>) \o rows ]

\* DROP TABLE IF EXISTS t, then CREATE TABLE t AS SELECT * FROM the view:
\* the table that results, given the one there was.
CreateTableAs(old, rows) == [ exists |-> TRUE, rows |-> rows ]

\* INSERT INTO t SELECT * FROM the view
InsertInto(old, rows) == [ old EXCEPT !.rows = @ \o rows ]

\* def arrow_to_duckdb(table, con, table_name, mode): the connection it
\* leaves and what it returns or raises.
arrow_to_duckdb(table, con, table_name, mode) ==
    LET view       == ViewName(table_name)
        registered == [ con EXCEPT !.views = @ \cup { view } ]
        loaded(t)  == [ tables |-> [ con.tables EXCEPT ![table_name] = t ],
                        views  |-> registered.views \ { view } ]
    IN  IF mode = "create_or_replace"
        THEN LET t == CreateTableAs(con.tables[table_name], table)
             IN  [ con   |-> loaded(t),
                   kind  |-> "return",
                   value |-> Len(t.rows),
                   lib   |-> << "con.register", "DROP TABLE IF EXISTS", "CREATE TABLE AS",
                                "con.unregister", "SELECT count(*)" >> ]
        ELSE IF mode = "append"
        THEN IF ~con.tables[table_name].exists
             THEN [ con  |-> registered,
                    kind |-> "CatalogException",
                    lib  |-> << "con.register", "INSERT INTO" >> ]
             ELSE LET t == InsertInto(con.tables[table_name], table)
                  IN  [ con   |-> loaded(t),
                        kind  |-> "return",
                        value |-> Len(t.rows),
                        lib   |-> << "con.register", "INSERT INTO", "con.unregister",
                                     "SELECT count(*)" >> ]
        ELSE [ con  |-> [ registered EXCEPT !.views = @ \ { view } ],
               kind |-> "ValueError",
               lib  |-> << "con.register", "con.unregister" >> ]

\* load_ndjson_to_duckdb once ndjson_file_to_arrow has returned or raised:
\* an exception leaves the function, a table goes to arrow_to_duckdb.
LoadArrow(arrow, con, table_name) ==
    IF arrow.kind # "return"
    THEN [ con |-> con, kind |-> arrow.kind, lib |-> arrow.lib ]
    ELSE [ arrow_to_duckdb(arrow.table, con, table_name, "create_or_replace")
             EXCEPT !.lib = arrow.lib \o @ ]

\* def load_ndjson_to_duckdb(ndjson_path, con, table_name)
load_ndjson_to_duckdb(fsys, path, con, table_name) ==
    LoadArrow(ndjson_file_to_arrow(fsys, path), con, table_name)

(***************************************************************************)
(* src/catalog/iceberg_catalog.py.  A catalog is its namespaces, its       *)
(* tables and the number of tables it has created; a table is the uuid it  *)
(* got when created and its snapshots, each the rows one append added.  An *)
(* identifier is the pair of a namespace and a table name.  The catalog    *)
(* keeps them in a store of its own (sqlite:///.../catalog.db); down is    *)
(* the set of its operations that cannot reach the store for now, and an   *)
(* operation that cannot raises OperationalError.                          *)
(***************************************************************************)
\* catalog.create_namespace(namespace)
create_namespace(cat, namespace) ==
    IF "create_namespace" \in cat.down
    THEN [ cat |-> cat, kind |-> "OperationalError" ]
    ELSE IF namespace \in cat.namespaces
    THEN [ cat |-> cat, kind |-> "NamespaceAlreadyExistsError" ]
    ELSE [ cat |-> [ cat EXCEPT !.namespaces = @ \cup { namespace } ], kind |-> "return" ]

\* catalog.load_table never finds the table: the mutant of load_table.
load_table_missing(cat, full_name) == [ kind |-> "NoSuchTableError" ]

\* catalog.load_table(full_name): a handle on the table
load_table(cat, full_name) ==
    IF "load_table" \in cat.down
    THEN [ kind |-> "OperationalError" ]
    ELSE IF cat.tables[full_name].exists
    THEN [ kind   |-> "return",
           handle |-> [ name |-> full_name, uuid |-> cat.tables[full_name].uuid ] ]
    ELSE [ kind |-> "NoSuchTableError" ]

\* catalog.create_table(identifier, schema)
create_table(cat, full_name) ==
    IF "create_table" \in cat.down
    THEN [ cat |-> cat, kind |-> "OperationalError" ]
    ELSE IF cat.tables[full_name].exists
    THEN [ cat |-> cat, kind |-> "TableAlreadyExistsError" ]
    ELSE IF full_name[1] \notin cat.namespaces
    THEN [ cat |-> cat, kind |-> "NoSuchNamespaceError" ]
    ELSE [ cat    |-> [ cat EXCEPT !.tables[full_name] =
                                     [ exists |-> TRUE, uuid |-> cat.created + 1,
                                       snapshots |-> << >> ],
                                   !.created = @ + 1 ],
           kind   |-> "return",
           handle |-> [ name |-> full_name, uuid |-> cat.created + 1 ] ]

\* def create_flights_table(catalog, namespace, table_name): whatever
\* create_namespace raises is passed over, and whatever load_table raises
\* leads to create_table.  calls is the catalog operations the function
\* called, in order.
create_flights_table(cat, namespace, table_name) ==
    LET ensured   == create_namespace(cat, namespace).cat
        full_name == FullName(namespace, table_name)
        loaded    == load_table(ensured, full_name)
        created   == create_table(ensured, full_name)
    IN  IF loaded.kind = "return"
        THEN [ cat |-> ensured, kind |-> "return", handle |-> loaded.handle,
               calls |-> << "create_namespace", "load_table" >> ]
        ELSE IF created.kind = "return"
        THEN [ cat |-> created.cat, kind |-> "return", handle |-> created.handle,
               calls |-> << "create_namespace", "load_table", "create_table" >> ]
        ELSE [ cat |-> created.cat, kind |-> created.kind,
               calls |-> << "create_namespace", "load_table", "create_table" >> ]

\* def _coerce_arrow_schema(arrow_table): the columns are cast to the types of
\* the Iceberg schema; the rows and their order stay.
coerce_arrow_schema(arrow_table) == [ k \in 1..Len(arrow_table) |-> arrow_table[k] ]

\* ice_table.append(df): one more snapshot, of the rows of df.
IceAppend(cat, handle, rows) ==
    [ cat EXCEPT !.tables[handle.name].snapshots = Append(@, rows) ]

\* The count returned is that of the whole table after the append: the
\* mutant of AppendedCount.
AppendedCount_total(cat, handle, arrow_table) ==
    Len(Join(cat.tables[handle.name].snapshots))

\* arrow_table.num_rows, which append_arrow_to_iceberg returns
AppendedCount(cat, handle, arrow_table) == Len(arrow_table)

\* def append_arrow_to_iceberg(catalog, arrow_table, namespace, table_name)
append_arrow_to_iceberg(cat, arrow_table, namespace, table_name) ==
    LET ice_table == create_flights_table(cat, namespace, table_name)
    IN  IF ice_table.kind # "return" THEN [ cat |-> ice_table.cat, kind |-> ice_table.kind ]
        ELSE LET after == IceAppend(ice_table.cat, ice_table.handle, coerce_arrow_schema(arrow_table))
             IN  [ cat   |-> after,
                   kind  |-> "return",
                   value |-> AppendedCount(after, ice_table.handle, arrow_table) ]

\* def scan_iceberg_table(catalog, namespace, table_name), with no filter and
\* no limit: the rows of every snapshot, in the order they were appended.
scan_iceberg_table(cat, namespace, table_name) ==
    LET loaded == load_table(cat, FullName(namespace, table_name))
    IN  IF loaded.kind # "return" THEN [ kind |-> loaded.kind ]
        ELSE [ kind  |-> "return",
               table |-> Join(cat.tables[loaded.handle.name].snapshots) ]

(***************************************************************************)
(* tests/feature_5_e2e_regression/test_e2e_pipeline.py: the pipeline.      *)
(***************************************************************************)
\* What the caller gets of a call: all but the stores it leaves.
Outcome(r) == [ k \in DOMAIN r \ { "con", "cat", "fs" } |-> r[k] ]

\* The number of snapshots of the whole catalog.
Snapshots(cat) ==
    LET count[ S \in SUBSET FullNames ] ==
            IF S = { } THEN 0
            ELSE LET f == CHOOSE f \in S : TRUE
                 IN  (IF cat.tables[f].exists THEN Len(cat.tables[f].snapshots) ELSE 0)
                         + count[S \ { f }]
    IN  count[FullNames]

\* run_full_pipeline from its step 3 on, given the file system and the count
\* stream_to_file gave and what ndjson_file_to_arrow gave: arrow_to_duckdb,
\* then append_arrow_to_iceberg.
LoadAndAppend(written, arrow, con, cat) ==
    IF arrow.kind # "return"
    THEN [ fs |-> written.fs, con |-> con, cat |-> cat, kind |-> arrow.kind ]
    ELSE LET duck == arrow_to_duckdb(arrow.table, con, "flights", "create_or_replace")
             ice  == append_arrow_to_iceberg(cat, arrow.table, "flights_db", "flights")
         IN  IF ice.kind # "return"
             THEN [ fs |-> written.fs, con |-> duck.con, cat |-> ice.cat,
                    kind |-> ice.kind ]
             ELSE [ fs           |-> written.fs,
                    con          |-> duck.con,
                    cat          |-> ice.cat,
                    kind         |-> "return",
                    written      |-> written.count,
                    arrow_table  |-> arrow.table,
                    duckdb_rows  |-> duck.value,
                    iceberg_rows |-> ice.value ]

\* run_full_pipeline from its step 2 on, given what stream_to_file gave.
ReadLoadAndAppend(written, con, cat) ==
    LoadAndAppend(written, ndjson_file_to_arrow(written.fs, PipelinePath), con, cat)

\* def run_full_pipeline(env, n), with records the list gen.generate(n) gave:
\* stream_to_file, ndjson_file_to_arrow, arrow_to_duckdb, append_arrow_to_iceberg.
run_full_pipeline(fsys, con, cat, recs, linesep) ==
    ReadLoadAndAppend(stream_to_file(fsys, recs, PipelinePath, linesep), con, cat)

(***************************************************************************)
(* SpecLoader: the loader of src/ingestion/arrow_loader.py on one DuckDB   *)
(* connection.  A caller makes one call after the other, in any order,     *)
(* with Arrow tables of its own or with the path of an NDJSON file;        *)
(* between two calls another writer may put a file of its own at a path.   *)
(***************************************************************************)
LoaderInit ==
    /\ platform = << "\n" >>
    /\ records = << >>
    /\ fs = EmptyFs
    /\ ret = NoCall
    /\ GeneratorIdle
    /\ RecordIdle
    /\ SchemaIdle
    /\ StoreIdle
    /\ LauncherIdle

\* arrow_table = ndjson_file_to_arrow(path)
Call_ndjson_file_to_arrow(path) ==
    /\ ret = NoCall
    /\ ret' = [ op |-> "ndjson_file_to_arrow", path |-> path,
                got |-> ndjson_file_to_arrow(fs, path) ]
    /\ UNCHANGED << platform, records, fs >>
    /\ UNCHANGED << generatorVars, storeVars, launcherVars >>

\* row_count = arrow_to_duckdb(table, con, table_name, mode)
Call_arrow_to_duckdb(table, table_name, mode) ==
    /\ ret = NoCall
    /\ IF mode = "append" /\ db.tables[table_name].exists
       THEN Len(db.tables[table_name].rows) + Len(table) <= MaxTableRows
       ELSE TRUE
    /\ \E r \in { arrow_to_duckdb(table, db, table_name, mode) } :
          /\ db' = r.con
          /\ ret' = [ op |-> "arrow_to_duckdb", table |-> table, table_name |-> table_name,
                      mode |-> mode, got |-> Outcome(r) ]
    /\ UNCHANGED << platform, records, fs, catalog, appended >>
    /\ UNCHANGED << generatorVars, launcherVars >>

\* row_count = load_ndjson_to_duckdb(path, con, table_name)
Call_load_ndjson_to_duckdb(path, table_name) ==
    /\ ret = NoCall
    /\ \E r \in { load_ndjson_to_duckdb(fs, path, db, table_name) } :
          /\ db' = r.con
          /\ ret' = [ op |-> "load_ndjson_to_duckdb", path |-> path,
                      table_name |-> table_name, got |-> Outcome(r) ]
    /\ UNCHANGED << platform, records, fs, catalog, appended >>
    /\ UNCHANGED << generatorVars, launcherVars >>

LoaderNext ==
    \/ \E path \in Paths : Call_ndjson_file_to_arrow(path)
    \/ \E table \in ArrowTables, table_name \in TableNames, mode \in Modes :
          Call_arrow_to_duckdb(table, table_name, mode)
    \/ \E path \in Paths, table_name \in TableNames :
          Call_load_ndjson_to_duckdb(path, table_name)
    \/ \E path \in ForeignPaths, f \in StoreFiles : ForeignWrite(path, f)
    \/ Continue

SpecLoader == LoaderInit /\ [][LoaderNext]_vars

(***************************************************************************)
(* SpecCatalog: the catalog of src/catalog/iceberg_catalog.py and the      *)
(* pipeline of the end-to-end tests, on one catalog and one DuckDB         *)
(* connection, on a platform whose os.linesep is "\n" or "\r\n".  A caller *)
(* makes one call after the other, in any order.                           *)
(***************************************************************************)
CatalogInit ==
    /\ platform \in Platforms
    /\ records = << >>
    /\ fs = EmptyFs
    /\ ret = NoCall
    /\ GeneratorIdle
    /\ RecordIdle
    /\ SchemaIdle
    /\ StoreIdle
    /\ LauncherIdle

\* table = create_flights_table(catalog, namespace, table_name)
Call_create_flights_table(namespace, table_name) ==
    /\ ret = NoCall
    /\ \E r \in { create_flights_table(catalog, namespace, table_name) } :
          /\ catalog' = r.cat
          /\ ret' = [ op |-> "create_flights_table", namespace |-> namespace,
                      table_name |-> table_name, got |-> Outcome(r) ]
    /\ UNCHANGED << platform, records, fs, db, appended >>
    /\ UNCHANGED << generatorVars, launcherVars >>

\* count = append_arrow_to_iceberg(catalog, arrow_table, namespace, table_name);
\* the caller adds the count to its sum for the table.
Call_append_arrow_to_iceberg(arrow_table, namespace, table_name) ==
    /\ ret = NoCall
    /\ Snapshots(catalog) < MaxSnapshots
    /\ \E r \in { append_arrow_to_iceberg(catalog, arrow_table, namespace, table_name) } :
          /\ catalog' = r.cat
          /\ appended' = IF r.kind = "return"
                         THEN [ appended EXCEPT ![FullName(namespace, table_name)] = @ + r.value ]
                         ELSE appended
          /\ ret' = [ op |-> "append_arrow_to_iceberg", table |-> arrow_table,
                      namespace |-> namespace, table_name |-> table_name,
                      got |-> Outcome(r) ]
    /\ UNCHANGED << platform, records, fs, db >>
    /\ UNCHANGED << generatorVars, launcherVars >>

\* result = scan_iceberg_table(catalog, namespace, table_name)
Call_scan_iceberg_table(namespace, table_name) ==
    /\ ret = NoCall
    /\ ret' = [ op |-> "scan_iceberg_table", namespace |-> namespace,
                table_name |-> table_name,
                got |-> scan_iceberg_table(catalog, namespace, table_name) ]
    /\ UNCHANGED << platform, records, fs >>
    /\ UNCHANGED << generatorVars, storeVars, launcherVars >>

\* metrics = run_full_pipeline(env, n); the caller adds iceberg_rows to its
\* sum for the table.
Call_run_full_pipeline(recs) ==
    /\ ret = NoCall
    /\ Snapshots(catalog) < MaxSnapshots
    /\ \E r \in { run_full_pipeline(fs, db, catalog, recs, platform) } :
          /\ fs' = r.fs
          /\ db' = r.con
          /\ catalog' = r.cat
          /\ appended' = IF r.kind = "return"
                         THEN [ appended EXCEPT ![FullName("flights_db", "flights")] =
                                                   @ + r.iceberg_rows ]
                         ELSE appended
          /\ ret' = [ op |-> "run_full_pipeline", n |-> Len(recs), got |-> Outcome(r) ]
    /\ UNCHANGED << platform, records >>
    /\ UNCHANGED << generatorVars, launcherVars >>

CatalogNext ==
    \/ \E namespace \in Namespaces, table_name \in IcebergNames :
          Call_create_flights_table(namespace, table_name)
    \/ \E table \in ArrowTables, namespace \in Namespaces, table_name \in IcebergNames :
          Call_append_arrow_to_iceberg(table, namespace, table_name)
    \/ \E namespace \in Namespaces, table_name \in IcebergNames :
          Call_scan_iceberg_table(namespace, table_name)
    \/ \E recs \in PipelineBatches : Call_run_full_pipeline(recs)
    \/ Continue

SpecCatalog == CatalogInit /\ [][CatalogNext]_vars

(***************************************************************************)
(* SpecOutage: create_flights_table and scan_iceberg_table on a catalog    *)
(* whose store comes and goes: between two calls any of the catalog's      *)
(* operations may lose the store or find it again.                         *)
(***************************************************************************)
CatalogOps == { "create_namespace", "load_table", "create_table" }

\* The store becomes unreachable for the operations of S and reachable for
\* the others.
Outage(S) ==
    /\ ret = NoCall
    /\ S # catalog.down
    /\ catalog' = [ catalog EXCEPT !.down = S ]
    /\ UNCHANGED << platform, records, fs, ret, db, appended >>
    /\ UNCHANGED << generatorVars, launcherVars >>

OutageNext ==
    \/ \E S \in SUBSET CatalogOps : Outage(S)
    \/ \E namespace \in Namespaces, table_name \in IcebergNames :
          Call_create_flights_table(namespace, table_name)
    \/ \E namespace \in Namespaces, table_name \in IcebergNames :
          Call_scan_iceberg_table(namespace, table_name)
    \/ Continue

SpecOutage == CatalogInit /\ [][OutageNext]_vars

(***************************************************************************)
(* Spec: the FlightDataGenerator objects of one process.  Callers          *)
(* construct instances, call generate(n) and stream(n) on them and advance *)
(* the iterators stream(n) returned, in any order; the clock moves on.     *)
(***************************************************************************)
\* base_time ignored: the mutant of BaseTime.
BaseTime_always_now(arg, now) == now

\* self.base_time = base_time or datetime.now(timezone.utc)
BaseTime(arg, now) == IF arg # None THEN arg[1] ELSE now

\* The process-wide stream in place of the instance's: the mutant of StreamKey.
StreamKey_shared(g) == FakerShared

\* The stream _make_record draws from is the instance's own field self.rng.
StreamKey(g) == g

\* A stream seeded anew at each read: the mutant of SelfRng.
SelfRng_reseeded(g) == Random(instances[g].seed)

\* self.rng, as a call on instance g finds it.
SelfRng(g) == streams[StreamKey(g)]

\* A loop that runs once more: the mutant of RangeHasNext.
RangeHasNext_inclusive(i, n) == i <= n

\* for _ in range(n): whether there is an iteration after i of them.
RangeHasNext(i, n) == i < n

RECURSIVE Records(_, _, _, _)
\* The loop of stream(n) from the iteration whose _make_record() gave m and
\* left the stream in state x1.
RecordsAfter(m, x1, base_time, i, n) ==
    IF m.ret.kind # "FlightRecord"
    THEN [ recs |-> <<>>, x |-> x1, raised |-> TRUE ]
    ELSE LET rest == Records(x1, base_time, i + 1, n)
         IN  [ recs   |-> <<m.ret.rec>> \o rest.recs,
               x      |-> rest.x,
               raised |-> rest.raised ]

\* One iteration of the loop: yield self._make_record(), and go on.
RecordsStep(m, x, base_time, i, n) ==
    RecordsAfter(m, StepN(x, m.used), base_time, i, n)

\* The loop of stream(n) run to its end from iteration i on a stream in state
\* x: the records yielded, the stream's state afterwards, and whether a
\* FlightRecord(...) call raised (which ends the loop).
Records(x, base_time, i, n) ==
    IF ~RangeHasNext(i, n)
    THEN [ recs |-> <<>>, x |-> x, raised |-> FALSE ]
    ELSE RecordsStep(MakeRecord(Draws(x), base_time), x, base_time, i, n)

Init ==
    /\ GeneratorIdle
    /\ RecordIdle
    /\ SchemaIdle
    /\ CodecIdle
    /\ StoreIdle
    /\ LauncherIdle

\* g = FlightDataGenerator(seed, base_time = arg).  now is the wall clock at
\* the construction, at or after its value at the previous one; the code reads
\* it only when arg is None.
Construct_Generator(g, seed, arg, now) ==
    /\ ~instances[g].constructed
    /\ now >= clock
    /\ clock' = now
    /\ instances' = [ instances EXCEPT ![g] =
                        [ constructed   |-> TRUE,
                          seed          |-> seed,
                          base_time     |-> BaseTime(arg, now),
                          arg_base_time |-> arg ] ]
    /\ streams' = [ streams EXCEPT ![StreamKey(g)] = Random(seed),
                                   ![FakerShared] = Random(seed) ]
    /\ UNCHANGED << calls, out, draws, rbase, made, input, result >>
    /\ UNCHANGED << codecVars, storeVars, launcherVars >>

\* g.generate(n): list(self.stream(n))
Generate(g, n) ==
    /\ instances[g].constructed
    /\ Len(calls) + 1 \in CallIds
    /\ \E r \in { Records(SelfRng(g), instances[g].base_time, 0, n) } :
           /\ calls' = Append(calls,
                           [ g      |-> g,
                             kind   |-> "generate",
                             n      |-> n,
                             res    |-> IF r.raised THEN <<>> ELSE r.recs,
                             done   |-> TRUE,
                             raised |-> r.raised ])
           /\ streams' = [ streams EXCEPT ![StreamKey(g)] = r.x ]
           /\ out' = [ out EXCEPT ![g] = @ \o r.recs ]
    /\ UNCHANGED << instances, clock, draws, rbase, made, input, result >>
    /\ UNCHANGED << codecVars, storeVars, launcherVars >>

\* g.stream(n): the iterator is created; nothing runs until it is advanced.
Stream(g, n) ==
    /\ instances[g].constructed
    /\ Len(calls) + 1 \in CallIds
    /\ calls' = Append(calls,
                    [ g      |-> g,
                      kind   |-> "stream",
                      n      |-> n,
                      res    |-> <<>>,
                      done   |-> FALSE,
                      raised |-> FALSE ])
    /\ UNCHANGED << instances, streams, clock, out, draws, rbase, made, input, result >>
    /\ UNCHANGED << codecVars, storeVars, launcherVars >>

\* next(it) on the iterator call c returned, which has an iteration left:
\* one _make_record(), whose record is yielded.
StreamYield(c) ==
    /\ c \in DOMAIN calls
    /\ calls[c].kind = "stream"
    /\ ~calls[c].done
    /\ RangeHasNext(Len(calls[c].res), calls[c].n)
    /\ \E g \in { calls[c].g } :
       \E m \in { MakeRecord(Draws(SelfRng(g)), instances[g].base_time) } :
       \E ok \in { m.ret.kind = "FlightRecord" } :
           /\ streams' = [ streams EXCEPT ![StreamKey(g)] = StepN(SelfRng(g), m.used) ]
           /\ calls' = [ calls EXCEPT ![c] =
                           IF ok THEN [ @ EXCEPT !.res = Append(@, m.ret.rec) ]
                                 ELSE [ @ EXCEPT !.done = TRUE, !.raised = TRUE ] ]
           /\ out' = [ out EXCEPT ![g] = IF ok THEN Append(@, m.ret.rec) ELSE @ ]
    /\ UNCHANGED << instances, clock, draws, rbase, made, input, result >>
    /\ UNCHANGED << codecVars, storeVars, launcherVars >>

\* next(it) on an iterator whose loop has ended: StopIteration.
StreamStop(c) ==
    /\ c \in DOMAIN calls
    /\ calls[c].kind = "stream"
    /\ ~calls[c].done
    /\ ~RangeHasNext(Len(calls[c].res), calls[c].n)
    /\ calls' = [ calls EXCEPT ![c].done = TRUE ]
    /\ UNCHANGED << instances, streams, clock, out, draws, rbase, made, input, result >>
    /\ UNCHANGED << codecVars, storeVars, launcherVars >>

Next ==
    \/ \E g \in Gens, seed \in Seeds, arg \in BaseTimeArgs, now \in Nows :
           Construct_Generator(g, seed, arg, now)
    \/ \E g \in Gens, n \in 0..MaxN : Generate(g, n)
    \/ \E g \in Gens, n \in 0..MaxN : Stream(g, n)
    \/ \E c \in CallIds : StreamYield(c)
    \/ \E c \in CallIds : StreamStop(c)

Spec == Init /\ [][Next]_vars

(***************************************************************************)
(* Properties of the generator objects (Spec).                             *)
(***************************************************************************)
\* Call c is the first call made on its instance.
FirstOnInstance(c) == \A b \in 1..(c - 1) : calls[b].g # calls[c].g

\* generate(k) on a generator freshly constructed with (seed, base_time), and
\* nothing else in the process: the records of the loop run on Random(seed).
GenerateAlone(seed, base_time, k) == Records(Random(seed), base_time, 0, k).recs

\* C1: two instances constructed with the same seed and the same base_time
\* argument return field-for-field identical sequences from generate(n),
\* whatever was constructed or run in between.
C1_SameSeedSameOutput ==
    \A c1, c2 \in DOMAIN calls :
        ( /\ calls[c1].kind = "generate" /\ FirstOnInstance(c1)
          /\ calls[c2].kind = "generate" /\ FirstOnInstance(c2)
          /\ calls[c1].n = calls[c2].n
          /\ instances[calls[c1].g].seed = instances[calls[c2].g].seed
          /\ instances[calls[c1].g].arg_base_time # None
          /\ instances[calls[c1].g].arg_base_time = instances[calls[c2].g].arg_base_time )
            => calls[c1].res = calls[c2].res

\* C1 witness: two distinct instances built with the same seed and base_time,
\* each asked for two records.
C1_Witness ==
    /\ Len(calls) = 2
    /\ calls[1].g # calls[2].g
    /\ calls[1].kind = "generate" /\ calls[2].kind = "generate"
    /\ calls[1].n = 2 /\ calls[2].n = 2
    /\ Len(calls[1].res) = 2
    /\ instances[calls[1].g].seed = instances[calls[2].g].seed
    /\ instances[calls[1].g].arg_base_time # None
    /\ instances[calls[1].g].arg_base_time = instances[calls[2].g].arg_base_time

\* C2: generate(a) followed on the same instance by generate(b), or by
\* stream(b) consumed to its end, returns the first a and then the next b
\* records of generate(a + b) on an identically constructed fresh generator.
C2_CallsContinueStream ==
    \A c1, c2 \in DOMAIN calls :
        ( /\ c1 < c2
          /\ calls[c1].g = calls[c2].g
          /\ { c \in DOMAIN calls : calls[c].g = calls[c1].g } = { c1, c2 }
          /\ calls[c1].kind = "generate"
          /\ calls[c2].done )
            => calls[c1].res \o calls[c2].res
                   = GenerateAlone(instances[calls[c1].g].seed,
                                   instances[calls[c1].g].base_time,
                                   calls[c1].n + calls[c2].n)

\* C2 witness: generate(1), then stream(1) consumed to its end, on one
\* instance; the second record is not the first again.
C2_Witness ==
    /\ Len(calls) = 2
    /\ calls[1].g = calls[2].g
    /\ calls[1].kind = "generate" /\ calls[1].n = 1
    /\ calls[2].kind = "stream" /\ calls[2].n = 1 /\ calls[2].done
    /\ Len(calls[2].res) = 1
    /\ calls[1].res # calls[2].res

\* C3: however the calls and constructions on two instances interleave, the
\* records an instance has produced are those it produces when it runs alone.
C3_InstancesDoNotInterfere ==
    \A g \in Gens :
        instances[g].constructed
            => out[g] = GenerateAlone(instances[g].seed, instances[g].base_time,
                                      Len(out[g]))

\* C3 witness: iterators on two instances with different seeds, both part-way
\* through: each has yielded one of its two records.
C3_Witness ==
    /\ Len(calls) = 2
    /\ calls[1].g # calls[2].g
    /\ instances[calls[1].g].seed # instances[calls[2].g].seed
    /\ \A c \in { 1, 2 } :
           /\ calls[c].kind = "stream"
           /\ calls[c].n = 2
           /\ Len(calls[c].res) = 1
           /\ ~calls[c].done

\* C4: generate(n) returns exactly n records, and stream(n) consumed to its
\* end has yielded exactly n, for every n >= 0.
C4_ExactCount ==
    \A c \in DOMAIN calls :
        /\ calls[c].kind = "generate"
               => ~calls[c].raised /\ Len(calls[c].res) = calls[c].n
        /\ (calls[c].kind = "stream" /\ calls[c].done)
               => ~calls[c].raised /\ Len(calls[c].res) = calls[c].n

\* C4 witness: generate(0) has returned the empty list and a stream(2) has
\* been consumed to its end.
C4_Witness ==
    /\ Len(calls) = 2
    /\ calls[1].kind = "generate" /\ calls[1].n = 0 /\ calls[1].res = <<>>
    /\ calls[2].kind = "stream" /\ calls[2].n = 2 /\ calls[2].done
    /\ Len(calls[2].res) = 2

(***************************************************************************)
(* Properties of one generated record (SpecRecord).                        *)
(***************************************************************************)
\* The call of _make_record has returned a record.
Returned == made.ret.kind = "FlightRecord"

\* C5: in every generated record delay_minutes is fixed by the status class:
\* delayed gives a value in 15..300, arrived or landed a value in
\* {0, 5, 10, 15, 30}, every other status (cancelled included) gives 0.
C5_DelayFixedByStatus ==
    Returned =>
        LET r == made.ret.rec
        IN  /\ r.status = "delayed" => r.delay_minutes \in 15..300
            /\ r.status \in { "arrived", "landed" }
                   => r.delay_minutes \in { 0, 5, 10, 15, 30 }
            /\ r.status \notin { "delayed", "arrived", "landed" }
                   => r.delay_minutes = 0

\* C5 witness: a delayed record with the smallest delay the draw can give.
C5_Witness ==
    /\ Returned
    /\ made.ret.rec.status = "delayed"
    /\ made.ret.rec.delay_minutes = 15

\* C6: every generated record has origin_airport # destination_airport, both
\* from the pool of 20 airport codes.
C6_DistinctAirportsFromPool ==
    Returned =>
        LET r == made.ret.rec
        IN  /\ r.origin_airport # r.destination_airport
            /\ r.origin_airport \in Range(AIRPORTS)
            /\ r.destination_airport \in Range(AIRPORTS)
            /\ Len(AIRPORTS) = 20

\* C6 witness: both steps of the sample select the same pool index (0), and
\* the second gets the code moved there from the end of the pool.
C6_Witness ==
    /\ Returned
    /\ RandBelow(draws[3], 20) = RandBelow(draws[4], 19)
    /\ made.ret.rec.origin_airport = AIRPORTS[1]
    /\ made.ret.rec.destination_airport = AIRPORTS[20]

\* C8: the generator never builds a record that validation rejects: whatever
\* the draws, the call returns a record, with flight_number in 100..9999,
\* airline_code of length 2..3, airport codes of length 3..4, delay_minutes
\* >= 0 and the three codes upper-case.
C8_GeneratorNeverInvalid ==
    made.ret # Pending =>
        /\ made.ret.kind = "FlightRecord"
        /\ LET r == made.ret.rec
           IN  /\ r.flight_number \in 100..9999
               /\ Len(r.airline_code) \in 2..3
               /\ Len(r.origin_airport) \in 3..4
               /\ Len(r.destination_airport) \in 3..4
               /\ r.delay_minutes >= 0
               /\ Upper(r.airline_code) = r.airline_code
               /\ Upper(r.origin_airport) = r.origin_airport
               /\ Upper(r.destination_airport) = r.destination_airport

\* C8 witness: a record with the largest flight number and the largest delay.
C8_Witness ==
    /\ Returned
    /\ made.ret.rec.flight_number = 9999
    /\ made.ret.rec.delay_minutes = 300

\* C10: in every generated record estimated_time is present exactly when
\* delay_minutes > 0 and is then scheduled_time + delay_minutes; with a delay
\* of 0 it is absent.
C10_EstimatedIffDelay ==
    Returned =>
        LET r == made.ret.rec
        IN  /\ r.delay_minutes > 0
                   => r.estimated_time = Some(r.scheduled_time + r.delay_minutes)
            /\ r.delay_minutes = 0 => r.estimated_time = None
            /\ (r.estimated_time # None) <=> (r.delay_minutes > 0)

\* C10 witness: an arrived record 30 minutes late, with its estimate.
C10_Witness ==
    /\ Returned
    /\ made.ret.rec.status = "arrived"
    /\ made.ret.rec.delay_minutes = 30
    /\ made.ret.rec.estimated_time = Some(made.ret.rec.scheduled_time + 30)

\* C11: in every generated record actual_time is present exactly when the
\* status is arrived, landed or departed; when present it is estimated_time
\* if that is present and scheduled_time otherwise, and a departed record
\* always has actual_time = scheduled_time.
C11_ActualIffCompleted ==
    Returned =>
        LET r == made.ret.rec
        IN  /\ (r.actual_time # None)
                   <=> (r.status \in { "arrived", "landed", "departed" })
            /\ (r.actual_time # None /\ r.estimated_time # None)
                   => r.actual_time = r.estimated_time
            /\ (r.actual_time # None /\ r.estimated_time = None)
                   => r.actual_time = Some(r.scheduled_time)
            /\ r.status = "departed" => r.actual_time = Some(r.scheduled_time)

\* C11 witness: a departed record, whose actual time is its scheduled time.
C11_Witness ==
    /\ Returned
    /\ made.ret.rec.status = "departed"
    /\ made.ret.rec.estimated_time = None
    /\ made.ret.rec.actual_time = Some(made.ret.rec.scheduled_time)

C9_InvalidFieldsRejected ==
    ( /\ result # Pending
      /\ \/ input.flight_number \notin 1..9999
         \/ Len(input.airline_code) \notin 2..3
         \/ Len(input.origin_airport) \notin 3..4
         \/ Len(input.destination_airport) \notin 3..4
         \/ input.delay_minutes < 0 )
        => /\ result.kind = "ValidationError"
           /\ "rec" \notin DOMAIN result

\* C9 witness: flight_number 10000, every other field valid, is rejected for
\* that field alone.
C9_Witness ==
    /\ input # <<>>
    /\ input.flight_number = 10000
    /\ result.kind = "ValidationError"
    /\ result.errors = { "flight_number" }

(***************************************************************************)
(* Properties of the NDJSON codec (SpecCodec).                             *)
(***************************************************************************)
\* The file at path is the one the caller's last stream_to_file left there.
WrittenByCaller(path) ==
    fs.files[path].exists /\ fs.files[path].by = "stream_to_file"

\* The file at path is a foreign one with a malformed non-empty line.
MalformedAt(path) ==
    /\ fs.files[path].exists
    /\ fs.files[path].by = "foreign"
    /\ fs.files[path].malformed

\* C12: writing any list of n >= 0 records with stream_to_file and reading
\* the file with read_ndjson_file returns exactly n dictionaries, in the
\* original order, each with the full set of record field names as keys and
\* with flight_id, airline_code, flight_number and airline equal to the
\* original record's.
C12_FileRoundTrip ==
    (ret.op = "read_ndjson_file" /\ WrittenByCaller(ret.path)) =>
        /\ ret.got.kind = "return"
        /\ Len(ret.got.value) = Len(records)
        /\ \A k \in 1..Len(records) :
              /\ ret.got.value[k].t = "dict"
              /\ DOMAIN ret.got.value[k].v = Range(FIELD_NAMES)
              /\ ret.got.value[k].v[FIELD_NAMES[1]] = [ t |-> "str", v |-> records[k].flight_id ]
              /\ ret.got.value[k].v[FIELD_NAMES[3]] = [ t |-> "str", v |-> records[k].airline ]
              /\ ret.got.value[k].v[FIELD_NAMES[4]] = [ t |-> "str", v |-> records[k].airline_code ]
              /\ ret.got.value[k].v[FIELD_NAMES[5]] = [ t |-> "int", v |-> records[k].flight_number ]

\* C12 witness: two different records, the first with an airline full of
\* characters that need escaping, written where os.linesep is "\r\n" and
\* read back as two dictionaries.
C12_Witness ==
    /\ ret.op = "read_ndjson_file"
    /\ WrittenByCaller(ret.path)
    /\ records = << RecordSpecial, RecordPlain >>
    /\ platform = << "\r", "\n" >>
    /\ ret.got.kind = "return"
    /\ Len(ret.got.value) = 2

\* C13: for any list of n >= 0 records and any path, stream_to_file creates
\* the file and the missing parent directories and returns exactly n, and
\* count_lines on that file then returns n; for n = 0 the file exists, is
\* empty, and both values are 0.
C13_WriteCountsLines ==
    /\ ret.op = "stream_to_file" =>
          /\ fs.files[ret.path].exists
          /\ Parents(ret.path) \subseteq fs.dirs
          /\ ret.value = Len(records)
          /\ records = << >> => fs.files[ret.path].bytes = << >>
    /\ (ret.op = "count_lines" /\ WrittenByCaller(ret.path)) =>
          ret.got = [ kind |-> "return", value |-> Len(records) ]

\* C13 witness: two records written to a path whose directories did not
\* exist, and count_lines on it giving 2.
C13_Witness ==
    /\ ret.op = "count_lines"
    /\ ret.path = << "out", "run1", "flights.ndjson" >>
    /\ WrittenByCaller(ret.path)
    /\ Len(records) = 2
    /\ ret.got = [ kind |-> "return", value |-> 2 ]

\* C14: records_to_ndjson of n records is the per-record lines joined by a
\* newline with one trailing newline when n > 0: exactly n newline
\* characters, none inside a record's line; it is the empty string when
\* n = 0.
C14_NdjsonLines ==
    ret.op = "records_to_ndjson" =>
        /\ Cardinality({ i \in 1..Len(ret.value) : ret.value[i] = "\n" }) = Len(records)
        /\ records = << >> => ret.value = << >>
        /\ records # << >> => ret.value[Len(ret.value)] = "\n"
        /\ FileLines(ret.value)
               = [ k \in 1..Len(records) |-> record_to_json_line(records[k]) \o << "\n" >> ]
        /\ \A k \in 1..Len(records) : "\n" \notin Range(record_to_json_line(records[k]))

\* C14 witness: the text of two records, the first with a newline in its
\* airline.
C14_Witness ==
    /\ ret.op = "records_to_ndjson"
    /\ records = << RecordSpecial, RecordPlain >>
    /\ "\n" \in Range(records[1].airline)
    /\ Len(FileLines(ret.value)) = 2

\* C15: the three encoders agree and the buffer is rewound: the position of
\* the buffer stream_to_buffer returns is 0, reading it from there gives
\* exactly the UTF-8 bytes of records_to_ndjson of the same list, and those
\* are also the bytes stream_to_file writes.
C15_EncodersAgree ==
    /\ ret.op = "stream_to_buffer" => ret.buf.pos = 0
    /\ (ret.op = "buf.read" /\ ret.first) =>
          ret.value = Utf8Encode(records_to_ndjson(records))
    /\ ret.op = "stream_to_file" =>
          fs.files[ret.path].bytes = Utf8Encode(records_to_ndjson(records))

\* C16: when a non-empty line of the file is malformed JSON, read_ndjson_file
\* fails with a parse error and returns no records at all: the dictionaries
\* decoded from earlier valid lines are not delivered to the caller.
C16_MalformedLineFailsRead ==
    (ret.op = "read_ndjson_file" /\ MalformedAt(ret.path)) =>
        /\ ret.got.kind = "JSONDecodeError"
        /\ "value" \notin DOMAIN ret.got

\* C16 witness: a file whose first line is a valid record and whose second
\* line is cut short; the read fails at the second.
C16_Witness ==
    /\ ret.op = "read_ndjson_file"
    /\ MalformedAt(ret.path)
    /\ ret.got.kind = "JSONDecodeError"
    /\ ret.got.line = 2

(***************************************************************************)
(* Properties of the loader (SpecLoader).                                  *)
(***************************************************************************)
\* A call of the loader on a path at which there is no file.
MissingFileCall(r) ==
    /\ r.op \in { "ndjson_file_to_arrow", "load_ndjson_to_duckdb" }
    /\ ~fs.files[r.path].exists

\* C17: ndjson_file_to_arrow on a path that does not exist fails with
\* FileNotFoundError before paj.read_json is called, so that nothing of the
\* file is read or parsed; load_ndjson_to_duckdb on such a path fails the
\* same way and runs no statement on the connection: no table is created,
\* dropped or changed and no view is left registered.
C17_MissingFileFailsFirst ==
    [][ (ret = NoCall /\ MissingFileCall(ret')) =>
            /\ ret'.got.kind = "FileNotFoundError"
            /\ ret'.got.lib = << "Path.exists" >>
            /\ db' = db
            /\ fs' = fs ]_vars

\* C17 witness: load_ndjson_to_duckdb has failed on a missing path while the
\* table it names held rows.
C17_Witness ==
    /\ MissingFileCall(ret)
    /\ ret.op = "load_ndjson_to_duckdb"
    /\ ret.got.kind = "FileNotFoundError"
    /\ db.tables[ret.table_name].exists
    /\ db.tables[ret.table_name].rows # << >>

\* The rows of a DuckDB table, none when there is no such table.
RowsOf(con, table_name) ==
    IF con.tables[table_name].exists THEN con.tables[table_name].rows ELSE << >>

PipelineTable == FullName("flights_db", "flights")

\* What a full scan of the table gives: its rows, none when there is no such
\* table.
ScanOf(cat, full_name) ==
    IF cat.tables[full_name].exists THEN Join(cat.tables[full_name].snapshots) ELSE << >>

\* The counts returned and the scans: an append has returned the row count of
\* the table it was given, a scan returns as many rows as the appends to the
\* table have returned in all, and every table holds that many rows.
AppendsAddUp ==
    /\ ret.op = "append_arrow_to_iceberg" =>
          /\ ret.got.kind = "return"
          /\ ret.got.value = Len(ret.table)
    /\ (ret.op = "scan_iceberg_table" /\ ret.got.kind = "return") =>
          Len(ret.got.table) = appended[FullName(ret.namespace, ret.table_name)]
    /\ \A f \in FullNames : Len(ScanOf(catalog, f)) = appended[f]

\* C19: the Iceberg table accumulates.  Each append_arrow_to_iceberg call
\* returns the row count of the Arrow table it appended and adds exactly
\* those rows after the ones the table held; a full scan returns the sum of
\* the counts returned.  Each pipeline run that completes adds its rows to
\* the Iceberg table, so that it holds the sum of the run sizes, and leaves
\* in the DuckDB table the rows of that run only.
C19_IcebergAccumulates ==
    [][ /\ AppendsAddUp'
        /\ (ret = NoCall /\ ret'.op = "append_arrow_to_iceberg") =>
              LET f == FullName(ret'.namespace, ret'.table_name)
              IN  ScanOf(catalog', f) = ScanOf(catalog, f) \o ret'.table
        /\ (ret = NoCall /\ ret'.op = "run_full_pipeline" /\ ret'.got.kind = "return") =>
              /\ ret'.got.written = ret'.n
              /\ ret'.got.iceberg_rows = ret'.n
              /\ ret'.got.duckdb_rows = ret'.n
              /\ Len(ret'.got.arrow_table) = ret'.n
              /\ ScanOf(catalog', PipelineTable)
                    = ScanOf(catalog, PipelineTable) \o ret'.got.arrow_table
              /\ RowsOf(db', "flights") = ret'.got.arrow_table ]_vars

\* C19 witness: a pipeline run of one record has completed after a run of
\* two: Iceberg holds three rows in two snapshots, DuckDB the last one.
C19_Witness ==
    /\ ret.op = "run_full_pipeline"
    /\ ret.got.kind = "return"
    /\ ret.n = 1
    /\ Len(catalog.tables[PipelineTable].snapshots) = 2
    /\ Len(catalog.tables[PipelineTable].snapshots[1]) = 2
    /\ catalog.tables[PipelineTable].snapshots[1][1] = ret.got.arrow_table[1]
    /\ appended[PipelineTable] = 3
    /\ Len(ScanOf(catalog, PipelineTable)) = 3
    /\ Len(RowsOf(db, "flights")) = 1

\* C20: create_flights_table is idempotent.  Every call returns a handle on
\* the table of the namespace and name given; when the table exists the call
\* creates nothing and changes no table, so that the handle is on the same
\* table (same uuid) with the rows it held; when it does not, the call
\* creates it, empty, and no other.  Over any sequence of calls a table that
\* exists stays the same table and keeps the rows appended to it, and the
\* catalog has created each of its tables once.
C20_CreateIsIdempotent ==
    [][ /\ (ret = NoCall /\ ret'.op = "create_flights_table") =>
              LET f == FullName(ret'.namespace, ret'.table_name)
              IN  /\ ret'.got.kind = "return"
                  /\ ret'.got.handle.name = f
                  /\ catalog'.tables[f].exists
                  /\ ret'.got.handle.uuid = catalog'.tables[f].uuid
                  /\ catalog.tables[f].exists =>
                        /\ catalog'.tables = catalog.tables
                        /\ catalog'.created = catalog.created
                  /\ ~catalog.tables[f].exists =>
                        /\ catalog'.tables[f].snapshots = << >>
                        /\ catalog'.created = catalog.created + 1
                  /\ \A other \in FullNames \ { f } :
                        catalog'.tables[other] = catalog.tables[other]
        /\ \A f \in FullNames :
              catalog.tables[f].exists =>
                  /\ catalog'.tables[f].exists
                  /\ catalog'.tables[f].uuid = catalog.tables[f].uuid
                  /\ SubSeq(ScanOf(catalog', f), 1, Len(ScanOf(catalog, f)))
                        = ScanOf(catalog, f)
        /\ catalog'.created = Cardinality({ f \in FullNames : catalog'.tables[f].exists }) ]_vars

\* C20 witness: create_flights_table has returned the handle of a table that
\* holds appended rows, the only table the catalog has created.
C20_Witness ==
    /\ ret.op = "create_flights_table"
    /\ ret.got.kind = "return"
    /\ ret.got.handle.uuid = 1
    /\ catalog.created = 1
    /\ ScanOf(catalog, FullName(ret.namespace, ret.table_name)) # << >>

(***************************************************************************)
(* Properties of create_flights_table on a failing store (SpecOutage).     *)
(***************************************************************************)
\* C21: create_flights_table masks only the already-exists case.  When
\* create_namespace cannot reach the store the call raises that error and
\* goes no further; when load_table cannot, the call raises that error and
\* does not go on to create_table.
C21_OtherErrorsPropagate ==
    [][ (ret = NoCall /\ ret'.op = "create_flights_table") =>
            /\ "create_namespace" \in catalog.down =>
                  /\ ret'.got.kind = "OperationalError"
                  /\ ret'.got.calls = << "create_namespace" >>
            /\ ("create_namespace" \notin catalog.down /\ "load_table" \in catalog.down) =>
                  /\ ret'.got.kind = "OperationalError"
                  /\ ret'.got.calls = << "create_namespace", "load_table" >> ]_vars

(***************************************************************************)
(* Properties of the records of one generator (SpecBatch).                 *)
(***************************************************************************)
\* SELECT ... FROM flights WHERE flight_id = id, on the table loaded from the
\* records: the rows that match.
RowsWithId(rows, id) == { k \in 1..Len(rows) : rows[k].flight_id = id }

\* C22: flight_id identifies a flight.  No two records of one generator have
\* the same flight_id, so that the rows a lookup by a record's flight_id
\* finds are that record alone, with its own status and fields.
C22_FlightIdUnique ==
    \A k \in 1..Len(out["g1"]) :
        RowsWithId(out["g1"], out["g1"][k].flight_id) = { k }

(***************************************************************************)
(* The desktop launcher (src/launcher.py).                                 *)
(*                                                                         *)
(* main() is followed from one blocking call to the next.  The server is   *)
(* started with Popen(cmd_str, shell=True): proc is the shell that runs    *)
(* the command, and the marimo server is either the same process (a shell  *)
(* that replaces itself by its last command) or the shell's child.  The    *)
(* signals of _shutdown go to proc.                                        *)
(***************************************************************************)
\* candidates of _find_system_python, in the order the loop tries them.
Candidates(h) ==
    IF h.env
    THEN << "build_python", "py -3", "python", "python3" >>
    ELSE << "py -3", "python", "python3" >>

\* What subprocess.run does with a candidate: returncode 0 ("ok"), another
\* returncode ("fail"), FileNotFoundError ("missing"), TimeoutExpired
\* ("timeout"), or an OSError the loop does not catch ("denied").
RunOutcomes == { "ok", "fail", "missing", "timeout", "denied" }

\* The first candidate at which the loop stops: by a return or by an error
\* that leaves the loop.
StopsAt(h) ==
    LET c == Candidates(h)
        Stops(k) == h.run[c[k]] \in { "ok", "denied" }
    IN  FirstIndex(Stops, 1, Len(c))

find_system_python(h) ==
    LET c == Candidates(h)
        k == StopsAt(h)
    IN  IF k > Len(c)
        THEN [ kind |-> "SystemExit", code |-> 1, tried |-> c ]
        ELSE IF h.run[c[k]] = "ok"
             THEN [ kind |-> "return", value |-> c[k], tried |-> SubSeq(c, 1, k) ]
             ELSE [ kind |-> "PermissionError", tried |-> SubSeq(c, 1, k) ]

\* range(60) of the readiness loop.
PollLimit == 60

\* proc.poll() is None
ProcAlive_unchecked(l) == TRUE

ProcAlive(l) == l.proc = "running"

\* _cleanup(workspace): shutil.rmtree(workspace, ignore_errors = True)
cleanup(l) == [ l EXCEPT !.workspace = "deleted" ]

\* main() ends: by its last line (0), by sys.exit(code), or by the exception
\* named.
Ended(l, how) == [ l EXCEPT !.pc = "done", !.exit = how ]

\* Lines 150-154: _find_system_python, then _prepare_workspace.
Prepare ==
    /\ launcher.pc = "idle"
    /\ LET found == find_system_python(host)
       IN  launcher' =
               IF found.kind = "return"
               THEN [ launcher EXCEPT !.pc = "prepared", !.python = found.value,
                                      !.workspace = "exists" ]
               ELSE Ended(launcher, IF found.kind = "SystemExit" THEN "1" ELSE found.kind)
    /\ UNCHANGED << host, generatorVars, codecVars, storeVars >>

\* Lines 155-183: the port, the command, subprocess.Popen(..., shell=True).
\* Popen returns with the shell running (the server it runs being the same
\* process or its child), or raises OSError when no process can be created.
StartServer(started, sameProcess) ==
    /\ launcher.pc = "prepared"
    /\ launcher' =
           IF started
           THEN [ launcher EXCEPT !.pc = "polling", !.proc = "running",
                                  !.server = "running", !.execs = sameProcess ]
           ELSE Ended(launcher, "OSError")
    /\ UNCHANGED << host, generatorVars, codecVars, storeVars >>

\* Lines 207-212: webbrowser.open(url), then the streaming loop.
OpenBrowser(l) == [ l EXCEPT !.pc = "streaming", !.browser = @ + 1 ]

\* Lines 187-212, one turn of the readiness loop: the sleep, proc.poll(),
\* then one connection attempt; the turn that connects, and the 60th turn
\* that does not, go on to open the browser.
Poll ==
    /\ launcher.pc = "polling"
    /\ launcher.polls < PollLimit
    /\ launcher' =
           IF ~ProcAlive(launcher)
           THEN Ended(cleanup(launcher), "1")
           ELSE LET tried == [ launcher EXCEPT !.polls = @ + 1 ]
                IN  IF launcher.listening \/ tried.polls = PollLimit
                    THEN OpenBrowser(tried)
                    ELSE tried
    /\ UNCHANGED << host, generatorVars, codecVars, storeVars >>

\* Lines 216-223 and 228-230: proc.poll() is no longer None, the loop ends,
\* _shutdown returns at once and _cleanup removes the workspace.
StreamEnds ==
    /\ launcher.pc = "streaming"
    /\ ~ProcAlive(launcher)
    /\ launcher' = Ended(cleanup(launcher), "0")
    /\ UNCHANGED << host, generatorVars, codecVars, storeVars >>

\* Ctrl+C: KeyboardInterrupt in main().  Only the streaming loop catches it
\* (lines 215-225); there _shutdown starts: it returns at once when proc has
\* exited, else it signals proc and waits up to 5 seconds (lines 235-242).
\* Anywhere else the exception leaves main().
CtrlC ==
    /\ launcher.pc \in { "prepared", "polling", "streaming", "wait5", "wait3" }
    /\ launcher' =
           IF launcher.pc = "streaming"
           THEN IF ~ProcAlive(launcher)
                THEN Ended(cleanup(launcher), "0")
                ELSE [ launcher EXCEPT !.pc = "wait5", !.signal = "terminate" ]
           ELSE Ended(launcher, "KeyboardInterrupt")
    /\ UNCHANGED << host, generatorVars, codecVars, storeVars >>

\* Lines 242-245 and 229-230, proc.wait(timeout = 5) ends: proc has exited
\* and _cleanup follows, or the timeout expires, proc.kill() is sent and
\* proc.wait(timeout = 3) begins.
Wait5 ==
    /\ launcher.pc = "wait5"
    /\ launcher' =
           IF ~ProcAlive(launcher)
           THEN Ended(cleanup(launcher), "0")
           ELSE [ launcher EXCEPT !.pc = "wait3", !.signal = "kill" ]
    /\ UNCHANGED << host, generatorVars, codecVars, storeVars >>

\* Lines 245 and 229-230, proc.wait(timeout = 3) ends: proc has exited and
\* _cleanup follows, or TimeoutExpired leaves _shutdown and main().
Wait3 ==
    /\ launcher.pc = "wait3"
    /\ launcher' =
           IF ~ProcAlive(launcher)
           THEN Ended(cleanup(launcher), "0")
           ELSE Ended(launcher, "TimeoutExpired")
    /\ UNCHANGED << host, generatorVars, codecVars, storeVars >>

\* The server binds its port.
ServerListens ==
    /\ launcher.server = "running"
    /\ ~launcher.listening
    /\ launcher' = [ launcher EXCEPT !.listening = TRUE ]
    /\ UNCHANGED << host, generatorVars, codecVars, storeVars >>

\* The server exits, by itself or on a signal it received; a shell that was
\* waiting for it exits with it.
ServerExits ==
    /\ launcher.server = "running"
    /\ launcher' = [ launcher EXCEPT !.server = "exited", !.proc = "exited",
                                     !.listening = FALSE ]
    /\ UNCHANGED << host, generatorVars, codecVars, storeVars >>

\* The signal of _shutdown ends the shell that Popen started; the server,
\* its child, is not signalled and runs on.
ShellKilled ==
    /\ launcher.proc = "running"
    /\ ~launcher.execs
    /\ launcher.signal # "none"
    /\ launcher' = [ launcher EXCEPT !.proc = "exited" ]
    /\ UNCHANGED << host, generatorVars, codecVars, storeVars >>

\* Three machines: only "python" has marimo; FLIGHT_OTP_PYTHON names a good
\* interpreter; no interpreter has marimo.
LaunchHosts ==
    { PlainHost,
      [ env |-> TRUE, run |-> [ c \in Commands |-> IF c = "build_python" THEN "ok" ELSE "fail" ] ],
      [ env |-> FALSE, run |-> [ c \in Commands |-> "missing" ] ] }

LauncherInit ==
    /\ GeneratorIdle
    /\ RecordIdle
    /\ SchemaIdle
    /\ CodecIdle
    /\ StoreIdle
    /\ launcher = NotStarted
    /\ host \in LaunchHosts

LauncherNext ==
    \/ Prepare
    \/ \E started \in BOOLEAN, sameProcess \in BOOLEAN : StartServer(started, sameProcess)
    \/ Poll
    \/ StreamEnds
    \/ CtrlC
    \/ Wait5
    \/ Wait3
    \/ ServerListens
    \/ ServerExits
    \/ ShellKilled

SpecLauncher == LauncherInit /\ [][LauncherNext]_vars

\* Every machine: FLIGHT_OTP_PYTHON set or not, and each interpreter with
\* marimo, without it, or absent.
Hosts ==
    [ env : BOOLEAN, run : [ Commands -> { "ok", "fail", "missing" } ] ]
        \cup { [ env |-> e, run |-> [ c \in Commands |-> IF c = d THEN o ELSE "ok" ] ] :
                 e \in BOOLEAN, d \in Commands, o \in { "timeout", "denied" } }

PythonInit ==
    /\ GeneratorIdle
    /\ RecordIdle
    /\ SchemaIdle
    /\ CodecIdle
    /\ StoreIdle
    /\ launcher = NotStarted
    /\ host \in Hosts

Call_find_system_python ==
    /\ ret = NoCall
    /\ ret' = [ op |-> "_find_system_python", got |-> find_system_python(host) ]
    /\ UNCHANGED << platform, records, fs, generatorVars, storeVars, launcherVars >>

PythonNext == Call_find_system_python

SpecPython == PythonInit /\ [][PythonNext]_vars

(***************************************************************************)
(* Properties of the launcher (SpecLauncher, SpecPython).                  *)
(***************************************************************************)
\* C23: the workspace exists before the server is started, and however the
\* launcher ends after creating it (normal stop, Ctrl+C at any point,
\* server exit during startup, failure to start the server process, a
\* server that outlives the shutdown timeouts) the workspace is deleted.
C23_WorkspaceAlwaysDeleted ==
    /\ launcher.proc # "none" => launcher.workspace # "none"
    /\ launcher.pc = "done" => launcher.workspace # "exists"

\* C24: the workspace is never deleted while the server is still running:
\* whenever _cleanup has run, the server has exited.
C24_NoCleanupWhileServerRuns ==
    launcher.workspace = "deleted" => launcher.server # "running"

DocumentedOrder == << "py -3", "python", "python3", "build_python" >>

\* The candidate can import marimo (FLIGHT_OTP_PYTHON names one only when
\* it is set).
CanImport(h, c) == h.run[c] = "ok" /\ (c = "build_python" => h.env)

\* C26: _find_system_python returns the first interpreter, in the
\* documented order py -3, python, python3, FLIGHT_OTP_PYTHON, that can
\* import marimo, and exits with code 1 only when none can.
C26_DocumentedOrder ==
    (ret.op = "_find_system_python" /\ \A c \in Commands : host.run[c] # "denied") =>
        LET first == FirstIndex(LAMBDA k : CanImport(host, DocumentedOrder[k]), 1, 4)
        IN  IF first > 4
            THEN ret.got.kind = "SystemExit" /\ ret.got.code = 1
            ELSE ret.got.kind = "return" /\ ret.got.value = DocumentedOrder[first]

(***************************************************************************)
(* Properties of the loader's temporary view (SpecLoader).                 *)
(***************************************************************************)
\* C27: however arrow_to_duckdb finishes (normal return, ValueError of an
\* unknown mode, or an error the database raises during create or
\* insert), the view __arrow_<table_name> is not registered on the
\* connection afterwards, and the unknown-mode error leaves every table
\* as it was.
C27_ViewNeverLeftRegistered ==
    [][ (ret = NoCall /\ ret'.op = "arrow_to_duckdb") =>
            /\ ViewName(ret'.table_name) \notin db'.views
            /\ ret'.got.kind = "ValueError" => db'.tables = db.tables ]_vars

(***************************************************************************)
(* Properties of repeated writes (SpecRewrite).                            *)
(***************************************************************************)
\* The lists of which the file at path holds exactly the lines.
ListsHeldAt(path) ==
    { recs \in RecordLists : fs.files[path].bytes = WrittenBytes(recs, platform) }

\* What read_ndjson_file returned is one dictionary for each of the records,
\* in their order and with their flight ids.
ReadsBack(got, recs) ==
    /\ got.kind = "return"
    /\ [ k \in 1..Len(got.value) |-> got.value[k].v[FIELD_NAMES[1]].v ]
           = [ k \in 1..Len(recs) |-> recs[k].flight_id ]

\* C28: stream_to_file replaces and never appends.  After a call, whatever
\* the file held before, the file holds exactly the lines of that call's
\* records, and count_lines and read_ndjson_file on it give the number and
\* the flight ids of those records only; every count and every read of a
\* file the caller wrote reflects one written list.
C28_LastWriteWins ==
    /\ ret.op = "stream_to_file" =>
          /\ fs.files[ret.path].bytes = WrittenBytes(records, platform)
          /\ count_lines(fs, ret.path) = [ kind |-> "return", value |-> Len(records) ]
          /\ ReadsBack(read_ndjson_file(fs, ret.path), records)
    /\ ret.op = "count_lines" /\ fs.files[ret.path].exists =>
          \E recs \in ListsHeldAt(ret.path) : ret.got.value = Len(recs)
    /\ ret.op = "read_ndjson_file" /\ fs.files[ret.path].exists =>
          \E recs \in ListsHeldAt(ret.path) : Len(ret.got.value) = Len(recs)

\* C28 witness: one record written over a file that held two, after which
\* the file is shorter than before and counts one line.
C28_Witness ==
    /\ ret.op = "stream_to_file"
    /\ ret.before.exists
    /\ Len(records) = 1
    /\ Len(ret.before.bytes) > Len(fs.files[ret.path].bytes)
    /\ count_lines(fs, ret.path).value = 1

(***************************************************************************)
(* The dashboard's KPI cell (src/dashboard.py).  A row of flights_otp is   *)
(* its airline, its route, its delay_minutes and its status; a NULL of     *)
(* the database is None in Python, here << >>; a percentage with one       *)
(* decimal is an integer number of tenths.                                 *)
(***************************************************************************)
\* CASE WHEN delay_minutes <= 15 THEN 1 ELSE 0 END AS is_ontime
is_ontime(delay_minutes) == IF delay_minutes <= 15 THEN 1 ELSE 0

\* The rows that the WHERE clause built from the two filters keeps: an empty
\* selection adds no clause.
Filtered(rows, airline_filter, route_filter) ==
    SelectSeq(rows, LAMBDA r :
        /\ airline_filter # { } => r.airline \in airline_filter
        /\ route_filter # { } => r.route \in route_filter)

\* SUM(is_ontime) over rows: the number of rows with is_ontime = 1.
OntimeCount(rows) ==
    Cardinality({ k \in 1..Len(rows) : is_ontime(rows[k].delay_minutes) = 1 })

\* ROUND(100.0 * ontime / total, 1), in tenths, halves away from zero.
RoundedPct(ontime, total) == (2000 * ontime + total) \div (2 * total)

\* kpi_sql on the rows kept: COUNT(*) of no row is 0, SUM of no row is NULL
\* and so is the quotient.
kpi(rows) ==
    [ total   |-> Len(rows),
      ontime  |-> IF rows = << >> THEN << >> ELSE << OntimeCount(rows) >>,
      otp_pct |-> IF rows = << >> THEN << >>
                  ELSE << RoundedPct(OntimeCount(rows), Len(rows)) >> ]

\* otp_color = "#10b981" if otp_pct >= 80 else "#f59e0b" if otp_pct >= 60
\* else "#ef4444"; None >= 80 raises TypeError.
otp_color(otp_pct) ==
    IF otp_pct = << >>
    THEN [ kind |-> "TypeError" ]
    ELSE [ kind |-> "return",
           value |-> IF otp_pct[1] >= 800 THEN "#10b981"
                     ELSE IF otp_pct[1] >= 600 THEN "#f59e0b" ELSE "#ef4444" ]

\* The cell up to its KPI cards: what it computes, or the error that ends it.
CardsOf(k, color) ==
    IF color.kind # "return"
    THEN [ kind |-> color.kind ]
    ELSE [ kind |-> "return", total |-> k.total, ontime |-> k.ontime[1],
           otp_pct |-> k.otp_pct[1], color |-> color.value ]

kpi_cell(rows, airline_filter, route_filter) ==
    LET k == kpi(Filtered(rows, airline_filter, route_filter))
    IN  CardsOf(k, otp_color(k.otp_pct))

\* The most rows of flights_otp.
MaxFlights == 2

DashRows ==
    [ airline : { "Delta", "Emirates" }, route : { "JFK-LAX", "DXB-LHR" },
      delay_minutes : { 0, 15, 16 }, status : { "delayed" } ]

\* flights_otp is never empty: the first cell loads 2,000 generated records.
DashTables == UNION { [ 1..n -> DashRows ] : n \in 1..MaxFlights }

\* The options of the two multiselects: the DISTINCT airlines and routes.
Options(rows, column) == { rows[k][column] : k \in 1..Len(rows) }

\* The KPI cell runs on a selection of the two filters.
Call_kpi_cell(rows, airline_filter, route_filter) ==
    /\ ret = NoCall
    /\ ret' = [ op |-> "kpi_cell", rows |-> rows, airline_filter |-> airline_filter,
                route_filter |-> route_filter,
                got |-> kpi_cell(rows, airline_filter, route_filter) ]
    /\ UNCHANGED << platform, records, fs >>
    /\ UNCHANGED << generatorVars, storeVars, launcherVars >>

DashboardInit ==
    /\ GeneratorIdle
    /\ RecordIdle
    /\ SchemaIdle
    /\ CodecIdle
    /\ StoreIdle
    /\ LauncherIdle

DashboardNext ==
    \/ \E rows \in DashTables :
          \E airline_filter \in SUBSET Options(rows, "airline"),
             route_filter \in SUBSET Options(rows, "route") :
                Call_kpi_cell(rows, airline_filter, route_filter)
    \/ Continue

SpecDashboard == DashboardInit /\ [][DashboardNext]_vars

(***************************************************************************)
(* Properties of the dashboard (SpecDashboard).                            *)
(***************************************************************************)
\* C29: for every selection of the airline and route filters, also one
\* that matches no flight, the KPI cell computes the total, the on-time
\* count, the OTP percentage (the share of flights with delay_minutes <=
\* 15) and the card colour without raising an error.
C29_KpiNeverRaises ==
    ret.op = "kpi_cell" =>
        /\ ret.got.kind = "return"
        /\ ret.got.total = Len(Filtered(ret.rows, ret.airline_filter, ret.route_filter))
        /\ ret.got.ontime <= ret.got.total
        /\ ret.got.color \in { "#10b981", "#f59e0b", "#ef4444" }

(***************************************************************************)
(* Properties of the base time (Spec).                                     *)
(***************************************************************************)
\* The record with its three time fields moved by d minutes; an absent time
\* stays absent.
ShiftTimes(r, d) ==
    [ r EXCEPT !.scheduled_time = @ + d,
               !.estimated_time = IF @ = None THEN None ELSE Some(@[1] + d),
               !.actual_time    = IF @ = None THEN None ELSE Some(@[1] + d) ]

\* The first generate(n) calls of two instances with the same seed.
SameSeedCalls(c1, c2) ==
    /\ calls[c1].kind = "generate" /\ FirstOnInstance(c1)
    /\ calls[c2].kind = "generate" /\ FirstOnInstance(c2)
    /\ calls[c1].n = calls[c2].n
    /\ instances[calls[c1].g].seed = instances[calls[c2].g].seed

\* C30: base_time affects only the time fields.  Two generators with the
\* same seed whose base times differ by d produce, for every n, the same
\* number of records; each record of the second is the record of the
\* first with scheduled_time, estimated_time and actual_time moved by d
\* (an absent time absent in both) and every other field identical; and
\* each scheduled_time is within 720 minutes of its generator's base time.
C30_BaseTimeOnlyShiftsTimes ==
    \A c1, c2 \in DOMAIN calls :
        SameSeedCalls(c1, c2) =>
            LET b1 == instances[calls[c1].g].base_time
                b2 == instances[calls[c2].g].base_time
            IN  /\ Len(calls[c2].res) = Len(calls[c1].res)
                /\ \A k \in 1..Len(calls[c1].res) :
                      /\ calls[c2].res[k] = ShiftTimes(calls[c1].res[k], b2 - b1)
                      /\ calls[c1].res[k].scheduled_time - b1 \in -720..720

\* C30 witness: two generators with one seed and different base times have
\* each produced two records, one of them with an estimated and an actual
\* time.
C30_Witness ==
    \E c1, c2 \in DOMAIN calls :
        /\ SameSeedCalls(c1, c2)
        /\ instances[calls[c1].g].base_time # instances[calls[c2].g].base_time
        /\ Len(calls[c1].res) = 2
        /\ Len(calls[c2].res) = 2
        /\ \E k \in 1..2 : /\ calls[c1].res[k].estimated_time # None
                           /\ calls[c1].res[k].actual_time # None

====
